---- MODULE Spec2Model ----
(***************************************************************************)
(* Model of the screen recorder client: the frame pipeline                 *)
(* (client/src/screen_capture.py) and the upload queue                     *)
(* (client/src/uploader.py).  Each component has its own specification     *)
(* (SpecCapture, SpecUploader); the variables of the other component stay  *)
(* at their initial values.                                                *)
(***************************************************************************)
EXTENDS Integers, Sequences, FiniteSets, TLC

\* ------------------------------------------------------------------------
\* Bounds of the model
\* ------------------------------------------------------------------------
MaxSessions == 1
MaxFrames == 3
MaxJoinTimeouts == 1
MaxSubmits == 2
MaxRuns == 2
MaxTick == 1
MaxFailures == 1
RetrySubmits == 1
RetryFailures == 6
TicksPerSec == 1
FirstSec == 10
FirstId == 700
MaxClock == 5
MaxEvents == 2
MaxMuxSessions == 2
MaxFinalizes == 2
MaxLoggerCalls == 3
MaxCallbacks == 3
DragStarts == 1
DragCallbacks == 3
MaxRecordings == 1
EncoderSessions == 2
EncoderFrames == 1
EncoderDeaths == 1
RestartCalls == 3
RestartCallbacks == 2
FairSubmits == 1
FairFailures == 6

\* ------------------------------------------------------------------------
\* Program constants
\* ------------------------------------------------------------------------
QueueMaxSize == 2
MaxRetries == 5
BackoffCap == 30
StatusOk == 200
NsPerMs == 1000000
NsPerSec == 1000000000
DefaultDuration == 30
ErrorDuration == 0
DragThreshold == 5

\* ========================================================================
\* Frame pipeline: ScreenCapture
\* ========================================================================
VARIABLES
    sc_running,      \* self.running
    frame_queue,     \* self.frame_queue, a sequence of frame ids
    session,         \* number of start() calls that took effect; names
                     \* output_file, capture_thread and encoder_thread
    ffmpeg_process,  \* self.ffmpeg_process: 0 is None, k the process that
                     \* the encoder thread of session k launched
    ffmpeg_installed,\* whether shutil.which("ffmpeg") finds a binary
    stdin,           \* stdin[k]: input stream of process k
    written,         \* written[k]: frames written to the stream of process k
    cap_pc,          \* cap_pc[k]: position of the capture thread of session k
    cap_frame,       \* cap_frame[k]: the frame that thread has grabbed
    enc_pc,          \* enc_pc[k]: position of the encoder thread of session k
    enc_frame,       \* enc_frame[k]: the frame that thread took off the queue
    stop_pc,         \* position of the caller inside stop()
    nextFrame,       \* number of frames grabbed so far
    putBy,           \* history: putBy[k] = frames thread k put on the queue
    dropped,         \* history: frames dropped because the queue was full
    closedWrites,    \* history: frames whose write hit a closed stream
    joinTimeouts,    \* number of join() calls of stop() that timed out
    stopped,         \* history: the session whose stop() returned last
    proc,            \* proc[k]: the subprocess of session k: "none" before
                     \* its launch, "running", "exited" or "killed"
    codec,           \* codec[k]: the -c:v of the command that launched it
    enc_wait,        \* enc_wait[k]: the process whose exit the encoder
                     \* thread of session k waits for in wait(), 0 if none
    ffmpeg_hangs,    \* whether ffmpeg stays alive when its input is closed
    encoders,        \* the encoders that `ffmpeg -encoders` advertises
    sc_budget        \* what a run may still do: frames to grab, sessions
                     \* to start, deaths of the subprocess

scVars == <<sc_running, frame_queue, session, ffmpeg_process, ffmpeg_installed,
            stdin, written, cap_pc, cap_frame, enc_pc, enc_frame, stop_pc,
            nextFrame, putBy, dropped, closedWrites, joinTimeouts, stopped,
            proc, codec, enc_wait, ffmpeg_hangs, encoders, sc_budget>>

\* ========================================================================
\* Upload queue: Uploader
\* ========================================================================
VARIABLES
    up_running,      \* self.running; FALSE while the process is down
    queue_dir,       \* the files of self.queue_dir: the durable records
    archives,        \* the paths for which os.path.exists is true
    upload_queue,    \* self.upload_queue, a sequence of records
    w_pc,            \* position of the upload worker
    w_rec,           \* the record the worker holds
    s_pc,            \* position of the caller inside upload_recording
    s_rec,           \* the record upload_recording has built
    s_result,        \* the last return of upload_recording and its input
    now,             \* the last reading of time.time(), in ticks
    failuresLeft,    \* number of delivery attempts that may still fail
    submitsLeft,     \* number of records upload_recording may still build
    runs,            \* number of constructions of the Uploader
    everWritten,     \* history: names of all durable records ever written
    delivered,       \* history: names of the records of delivered tasks
    abandoned,       \* history: records given up after the retry ceiling
    lastLoad         \* history: what the last construction found on disk

upVars == <<up_running, queue_dir, archives, upload_queue, w_pc, w_rec, s_pc,
            s_rec, s_result, now, failuresLeft, submitsLeft, runs, everWritten,
            delivered, abandoned, lastLoad>>

\* ========================================================================
\* One delivery attempt: Uploader._do_upload
\* ========================================================================
VARIABLES
    du_in,           \* the inputs of the attempt
    du_out           \* its outcome, "pending" before the call

duVars == <<du_in, du_out>>

\* ========================================================================
\* Clock: the module timing
\* ========================================================================
VARIABLES
    START_TIME_NS,   \* the module global; NoTime is None
    perf_counter,    \* the next reading of time.perf_counter_ns()
    tm_pc,           \* tm_pc[p]: position of caller p in get_timestamp_ns
    tm_now,          \* tm_now[p]: the counter p read as the left operand
    tm_ts,           \* tm_ts[p]: the last timestamp returned to p
    tm_origin,       \* history: the origin get_start_time returned to p last
    tm_active        \* history: the callers that have asked for a timestamp

tmVars == <<START_TIME_NS, perf_counter, tm_pc, tm_now, tm_ts, tm_origin,
            tm_active>>

\* ========================================================================
\* Packaging: TimelineMuxer
\* ========================================================================
VARIABLES
    mx_running,      \* self.running
    recording_id,    \* self.recording_id: 0 is None, else the second of start()
    video_file,      \* self.video_file: NoPath is None
    events_file,     \* self.events_file: NoPath is None
    mx_exists,       \* the registered paths for which os.path.exists is true
    mx_data,         \* what the events file holds while it exists
    mx_dirs,         \* mx_dirs[id]: the working directory of recording id
    mx_zips,         \* mx_zips[id]: the archive <output_dir>/recording_<id>.zip
    mx_pc,           \* position of the caller inside finalize()
    mx_ret,          \* what the last finalize() call returned
    mx_now,          \* the last reading of time.time(), in ticks
    mx_finalizes,    \* number of finalize() calls so far
    mx_starts,       \* number of start() calls that began a session
    mx_seen          \* history: what the last finalize() call found on entry

mxVars == <<mx_running, recording_id, video_file, events_file, mx_exists,
            mx_data, mx_dirs, mx_zips, mx_pc, mx_ret, mx_now, mx_finalizes,
            mx_starts, mx_seen>>

\* ========================================================================
\* The two pure steps of finalize: _calculate_duration, _normalize_events
\* ========================================================================
VARIABLES
    fn_exists,       \* whether the events file exists
    fn_data,         \* what the events file holds
    fn_duration,     \* the return of _calculate_duration, NoResult before
    fn_events        \* the return of _normalize_events, NoResult before

fnVars == <<fn_exists, fn_data, fn_duration, fn_events>>

\* ========================================================================
\* Event logger: InputLogger
\* ========================================================================
VARIABLES
    il_running,        \* self.running
    events,            \* self.events
    output_file,       \* self.output_file: 0 is None, else its clock second
    mouse_listener,    \* whether self.mouse_listener is a started listener
    keyboard_listener, \* the same for self.keyboard_listener
    drag_state,        \* self.drag_state
    il_files,          \* il_files[id]: the file events_<id>.json
    il_ret,            \* what the last stop() call returned
    il_stop_pc,        \* position of the caller inside stop()
    il_now,            \* the last reading of time.time(), in ticks
    cb_pc,             \* cb_pc[th]: position of listener thread th
    cb_in,             \* cb_in[th]: the arguments of its callback
    cb_ev,             \* cb_ev[th]: the event it has built in _add_event
    il_budget,         \* calls and callbacks the environment still makes
    il_starts,         \* number of start() calls so far
    il_stops,          \* number of stop() calls so far
    il_registered,     \* history: number of Listener.start() calls
    held,              \* history: buttons whose last callback was a press
    pressAt,           \* history: where and when each button was pressed last
    cb_quiet,        \* history: cb_quiet[th]: the logger was not running
                     \* when the last callback of th was delivered
    il_lock          \* self.lock: "none" or the thread that holds it

ilVars == <<il_running, events, output_file, mouse_listener, keyboard_listener,
            drag_state, il_files, il_ret, il_stop_pc, il_now, cb_pc, cb_in,
            cb_ev, il_budget, il_starts, il_stops, il_registered, held,
            pressAt, cb_quiet, il_lock>>

\* ========================================================================
\* Frame timestamps of the capture thread
\* ========================================================================
VARIABLES
    frame_timestamp_ns, \* timestamp_ns of the last frame, NoTime before
    frame_instant       \* history: the counter reading at which it was taken

fsVars == <<frame_timestamp_ns, frame_instant>>

\* ========================================================================
\* Controller: RecorderApp
\* ========================================================================
VARIABLES
    is_recording,    \* self.is_recording
    loop,            \* self.loop: "none", "new", "stopping" (loop.stop is
                     \* scheduled) or "stopped"
    worker_pc,       \* position of the recorder thread in recording_worker
    app_pc,          \* position of the caller inside stop_recording
    app_started,     \* the components whose start() the worker has called
    recording_path,  \* stop_recording's local: what finalize() returned
    app_upload,      \* the argument and the return of upload_recording
    app_calls,       \* history: the calls stop_recording made, in order
    app_stops,       \* number of stop_recording calls that took effect
    app_seen         \* history: the files in place when finalize was called

apVars == <<is_recording, loop, worker_pc, app_pc, app_started,
            recording_path, app_upload, app_calls, app_stops, app_seen>>

otherThanApp ==
    <<scVars, upVars, duVars, tmVars, mxVars, fnVars, ilVars, fsVars>>

tmRest == <<tm_pc, tm_now, tm_ts, tm_origin, tm_active>>

otherThanCapture == <<upVars, duVars, tmVars, mxVars, fnVars, ilVars, fsVars, apVars>>
otherThanUploader == <<scVars, duVars, tmVars, mxVars, fnVars, ilVars, fsVars, apVars>>
otherThanDoUpload == <<scVars, upVars, tmVars, mxVars, fnVars, ilVars, fsVars, apVars>>
otherThanTiming == <<scVars, upVars, duVars, mxVars, fnVars, ilVars, fsVars, apVars>>
otherThanMuxer == <<scVars, upVars, duVars, tmVars, fnVars, ilVars, fsVars, apVars>>
otherThanPure == <<scVars, upVars, duVars, tmVars, mxVars, ilVars, fsVars, apVars>>
otherThanLogger == <<scVars, upVars, duVars, mxVars, fnVars, tmRest, fsVars, apVars>>

\* ------------------------------------------------------------------------

\* the sessions that start() can begin within the budget of any specification
Sessions ==
    1..(IF EncoderSessions > MaxSessions THEN EncoderSessions ELSE MaxSessions)
NoFrame == 0

Range(s) == {s[i] : i \in DOMAIN s}

Encoders == {"h264_nvenc", "h264_qsv"}

ScInitWith(hangs, advertised, frames, sessions, deaths) ==
    /\ ffmpeg_hangs \in hangs
    /\ encoders \in advertised
    /\ sc_budget = [frames |-> frames, sessions |-> sessions,
                    deaths |-> deaths]
    /\ proc = [k \in Sessions |-> "none"]
    /\ codec = [k \in Sessions |-> "none"]
    /\ enc_wait = [k \in Sessions |-> 0]
    /\ sc_running = FALSE
    /\ frame_queue = <<>>
    /\ session = 0
    /\ ffmpeg_process = 0
    /\ ffmpeg_installed \in BOOLEAN
    /\ stdin = [k \in Sessions |-> "none"]
    /\ written = [k \in Sessions |-> {}]
    /\ cap_pc = [k \in Sessions |-> "unborn"]
    /\ cap_frame = [k \in Sessions |-> NoFrame]
    /\ enc_pc = [k \in Sessions |-> "unborn"]
    /\ enc_frame = [k \in Sessions |-> NoFrame]
    /\ stop_pc = "idle"
    /\ nextFrame = 0
    /\ putBy = [k \in Sessions |-> {}]
    /\ dropped = {}
    /\ closedWrites = {}
    /\ joinTimeouts = 0
    /\ stopped = 0

ScInit == ScInitWith({FALSE}, {{}}, MaxFrames, MaxSessions, 0)

\* queue.Queue(maxsize=2): full() and the outcome of put(block=False)
QueueFull(q) == Len(q) >= QueueMaxSize

\* start(): returns at once while running, else sets running and creates the
\* two worker threads of a new session.
Start ==
    /\ UNCHANGED otherThanCapture
    /\ UNCHANGED <<proc, codec, enc_wait, ffmpeg_hangs, encoders>>
    /\ stop_pc = "idle"
    /\ ~sc_running
    /\ session < sc_budget.sessions
    /\ UNCHANGED sc_budget
    /\ sc_running' = TRUE
    /\ session' = session + 1
    /\ cap_pc' = [cap_pc EXCEPT ![session + 1] = "loop"]
    /\ enc_pc' = [enc_pc EXCEPT ![session + 1] = "init"]
    /\ UNCHANGED <<frame_queue, ffmpeg_process, ffmpeg_installed, stdin, written,
                   cap_frame, enc_frame, stop_pc, nextFrame, putBy, dropped,
                   closedWrites, joinTimeouts, stopped>>

\* ---- capture thread ----------------------------------------------------

\* while self.running: and, in an iteration whose elapsed time has reached
\* frame_interval, timestamp_ns = ...; frame = sct.grab(region).  An
\* iteration that is not yet due sleeps and comes back to the loop test.
CaptureLoop(k) ==
    /\ UNCHANGED otherThanCapture
    /\ UNCHANGED <<proc, codec, enc_wait, ffmpeg_hangs, encoders, sc_budget>>
    /\ cap_pc[k] = "loop"
    /\ IF sc_running
       THEN /\ nextFrame < sc_budget.frames
            /\ nextFrame' = nextFrame + 1
            /\ cap_frame' = [cap_frame EXCEPT ![k] = nextFrame + 1]
            /\ cap_pc' = [cap_pc EXCEPT ![k] = "check"]
       ELSE /\ cap_pc' = [cap_pc EXCEPT ![k] = "done"]
            /\ UNCHANGED <<nextFrame, cap_frame>>
    /\ UNCHANGED <<sc_running, frame_queue, session, ffmpeg_process,
                   ffmpeg_installed, stdin, written, enc_pc, enc_frame, stop_pc,
                   putBy, dropped, closedWrites, joinTimeouts, stopped>>

\* A capture thread that puts without looking at full().
CaptureCheckNoFullTest(k) ==
    /\ UNCHANGED otherThanCapture
    /\ UNCHANGED <<proc, codec, enc_wait, ffmpeg_hangs, encoders, sc_budget>>
    /\ cap_pc[k] = "check"
    /\ cap_pc' = [cap_pc EXCEPT ![k] = "put"]
    /\ UNCHANGED <<dropped, cap_frame>>
    /\ UNCHANGED <<sc_running, frame_queue, session, ffmpeg_process,
                   ffmpeg_installed, stdin, written, enc_pc, enc_frame, stop_pc,
                   nextFrame, putBy, closedWrites, joinTimeouts, stopped>>

\* if not self.frame_queue.full(): ... else the frame is dropped.
CaptureCheck(k) ==
    /\ UNCHANGED otherThanCapture
    /\ UNCHANGED <<proc, codec, enc_wait, ffmpeg_hangs, encoders, sc_budget>>
    /\ cap_pc[k] = "check"
    /\ IF QueueFull(frame_queue)
       THEN /\ dropped' = dropped \cup {cap_frame[k]}
            /\ cap_frame' = [cap_frame EXCEPT ![k] = NoFrame]
            /\ cap_pc' = [cap_pc EXCEPT ![k] = "loop"]
       ELSE /\ cap_pc' = [cap_pc EXCEPT ![k] = "put"]
            /\ UNCHANGED <<dropped, cap_frame>>
    /\ UNCHANGED <<sc_running, frame_queue, session, ffmpeg_process,
                   ffmpeg_installed, stdin, written, enc_pc, enc_frame, stop_pc,
                   nextFrame, putBy, closedWrites, joinTimeouts, stopped>>

\* self.frame_queue.put((timestamp_ns, frame), block=False): appends, or
\* raises queue.Full, which the handler of the worker turns into
\* running = False and the end of the thread.
CapturePut(k) ==
    /\ UNCHANGED otherThanCapture
    /\ UNCHANGED <<proc, codec, enc_wait, ffmpeg_hangs, encoders, sc_budget>>
    /\ cap_pc[k] = "put"
    /\ IF QueueFull(frame_queue)
       THEN /\ sc_running' = FALSE
            /\ cap_pc' = [cap_pc EXCEPT ![k] = "done"]
            /\ UNCHANGED <<frame_queue, putBy>>
       ELSE /\ frame_queue' = Append(frame_queue, cap_frame[k])
            /\ putBy' = [putBy EXCEPT ![k] = @ \cup {cap_frame[k]}]
            /\ cap_pc' = [cap_pc EXCEPT ![k] = "loop"]
            /\ UNCHANGED sc_running
    /\ cap_frame' = [cap_frame EXCEPT ![k] = NoFrame]
    /\ UNCHANGED <<session, ffmpeg_process, ffmpeg_installed, stdin, written,
                   enc_pc, enc_frame, stop_pc, nextFrame, dropped, closedWrites,
                   joinTimeouts, stopped>>

\* ---- encoder thread ----------------------------------------------------

\* "-c:v", "libx264"
Software == "libx264"

\* the state of a subprocess that ends as how, if it has not ended before
Ended(st, how) == IF st = "running" THEN how ELSE st

\* the encoder threads, of which those that wait() for process p go on to
\* their end once p is gone
WaitOver(p) ==
    [k \in Sessions |->
       IF enc_pc[k] = "wait" /\ enc_wait[k] = p THEN "done" ELSE enc_pc[k]]

\* shutil.which("ffmpeg"); without a binary the worker clears running and
\* returns, else it launches the subprocess and stores it in the attribute.
EncoderInit(k) ==
    /\ UNCHANGED otherThanCapture
    /\ UNCHANGED <<enc_wait, ffmpeg_hangs, encoders, sc_budget>>
    /\ enc_pc[k] = "init"
    /\ IF ffmpeg_installed
       THEN /\ ffmpeg_process' = k
            /\ stdin' = [stdin EXCEPT ![k] = "open"]
            /\ proc' = [proc EXCEPT ![k] = "running"]
            /\ codec' = [codec EXCEPT ![k] = Software]
            /\ enc_pc' = [enc_pc EXCEPT ![k] = "loop"]
            /\ UNCHANGED sc_running
       ELSE /\ sc_running' = FALSE
            /\ enc_pc' = [enc_pc EXCEPT ![k] = "done"]
            /\ UNCHANGED <<ffmpeg_process, stdin, proc, codec>>
    /\ UNCHANGED <<frame_queue, session, ffmpeg_installed, written, cap_pc,
                   cap_frame, enc_frame, stop_pc, nextFrame, putBy, dropped,
                   closedWrites, joinTimeouts, stopped>>

\* while self.running or not self.frame_queue.empty():
EncoderLoop(k) ==
    /\ UNCHANGED otherThanCapture
    /\ UNCHANGED <<proc, codec, enc_wait, ffmpeg_hangs, encoders, sc_budget>>
    /\ enc_pc[k] = "loop"
    /\ enc_pc' = [enc_pc EXCEPT ![k] =
                    IF sc_running \/ frame_queue # <<>> THEN "get" ELSE "finalize"]
    /\ UNCHANGED <<sc_running, frame_queue, session, ffmpeg_process,
                   ffmpeg_installed, stdin, written, cap_pc, cap_frame, enc_frame,
                   stop_pc, nextFrame, putBy, dropped, closedWrites, joinTimeouts,
                   stopped>>

\* self.frame_queue.get(timeout=1.0): a frame, or queue.Empty after the
\* timeout, which the inner handler swallows.
EncoderGet(k) ==
    /\ UNCHANGED otherThanCapture
    /\ UNCHANGED <<proc, codec, enc_wait, ffmpeg_hangs, encoders, sc_budget>>
    /\ enc_pc[k] = "get"
    /\ IF frame_queue # <<>>
       THEN /\ enc_frame' = [enc_frame EXCEPT ![k] = Head(frame_queue)]
            /\ frame_queue' = Tail(frame_queue)
            /\ enc_pc' = [enc_pc EXCEPT ![k] = "write"]
       ELSE /\ enc_pc' = [enc_pc EXCEPT ![k] = "loop"]
            /\ UNCHANGED <<enc_frame, frame_queue>>
    /\ UNCHANGED <<sc_running, session, ffmpeg_process, ffmpeg_installed, stdin,
                   written, cap_pc, cap_frame, stop_pc, nextFrame, putBy, dropped,
                   closedWrites, joinTimeouts, stopped>>

\* self.ffmpeg_process.stdin.write(...): the attribute is read at the time
\* of the write; a write on a closed stream raises, the inner handler logs
\* it and the loop goes on without the frame.
EncoderWrite(k) ==
    /\ UNCHANGED otherThanCapture
    /\ UNCHANGED <<proc, codec, enc_wait, ffmpeg_hangs, encoders, sc_budget>>
    /\ enc_pc[k] = "write"
    /\ IF stdin[ffmpeg_process] = "open"
       THEN /\ written' = [written EXCEPT ![ffmpeg_process] = @ \cup {enc_frame[k]}]
            /\ UNCHANGED closedWrites
       ELSE /\ closedWrites' = closedWrites \cup {enc_frame[k]}
            /\ UNCHANGED written
    /\ enc_frame' = [enc_frame EXCEPT ![k] = NoFrame]
    /\ enc_pc' = [enc_pc EXCEPT ![k] = "loop"]
    /\ UNCHANGED <<sc_running, frame_queue, session, ffmpeg_process,
                   ffmpeg_installed, stdin, cap_pc, cap_frame, stop_pc, nextFrame,
                   putBy, dropped, joinTimeouts, stopped>>

\* self.ffmpeg_process.stdin.close(); self.ffmpeg_process.wait(): the call
\* returns when the process has exited, which it does at the end of its
\* input unless it hangs.
EncoderFinalize(k) ==
    /\ UNCHANGED otherThanCapture
    /\ UNCHANGED <<codec, ffmpeg_hangs, encoders, sc_budget>>
    /\ enc_pc[k] = "finalize"
    /\ stdin' = [stdin EXCEPT ![ffmpeg_process] = "closed"]
    /\ IF proc[ffmpeg_process] = "running" /\ ffmpeg_hangs
       THEN /\ enc_pc' = [enc_pc EXCEPT ![k] = "wait"]
            /\ enc_wait' = [enc_wait EXCEPT ![k] = ffmpeg_process]
            /\ UNCHANGED proc
       ELSE /\ enc_pc' = [enc_pc EXCEPT ![k] = "done"]
            /\ proc' = [proc EXCEPT ![ffmpeg_process] = Ended(@, "exited")]
            /\ UNCHANGED enc_wait
    /\ UNCHANGED <<sc_running, frame_queue, session, ffmpeg_process,
                   ffmpeg_installed, written, cap_pc, cap_frame, enc_frame,
                   stop_pc, nextFrame, putBy, dropped, closedWrites, joinTimeouts,
                   stopped>>

\* ---- stop() --------------------------------------------------------------

\* if not self.running: return; self.running = False
StopBegin ==
    /\ UNCHANGED otherThanCapture
    /\ UNCHANGED <<proc, codec, enc_wait, ffmpeg_hangs, encoders, sc_budget>>
    /\ stop_pc = "idle"
    /\ sc_running
    /\ sc_running' = FALSE
    /\ stop_pc' = "join_capture"
    /\ UNCHANGED <<frame_queue, session, ffmpeg_process, ffmpeg_installed, stdin,
                   written, cap_pc, cap_frame, enc_pc, enc_frame, nextFrame, putBy,
                   dropped, closedWrites, joinTimeouts, stopped>>

\* self.capture_thread.join(timeout=2.0): returns when the thread has ended
\* or, while the thread is still alive, when the timeout expires.
StopJoinCapture ==
    /\ UNCHANGED otherThanCapture
    /\ UNCHANGED <<proc, codec, enc_wait, ffmpeg_hangs, encoders, sc_budget>>
    /\ stop_pc = "join_capture"
    /\ stop_pc' = "join_encoder"
    /\ IF cap_pc[session] = "done"
       THEN UNCHANGED joinTimeouts
       ELSE /\ joinTimeouts < MaxJoinTimeouts
            /\ joinTimeouts' = joinTimeouts + 1
    /\ UNCHANGED <<sc_running, frame_queue, session, ffmpeg_process,
                   ffmpeg_installed, stdin, written, cap_pc, cap_frame, enc_pc,
                   enc_frame, nextFrame, putBy, dropped, closedWrites, stopped>>

\* self.encoder_thread.join(timeout=5.0)
StopJoinEncoder ==
    /\ UNCHANGED otherThanCapture
    /\ UNCHANGED <<proc, codec, enc_wait, ffmpeg_hangs, encoders, sc_budget>>
    /\ stop_pc = "join_encoder"
    /\ stop_pc' = "close"
    /\ IF enc_pc[session] = "done"
       THEN UNCHANGED joinTimeouts
       ELSE /\ joinTimeouts < MaxJoinTimeouts
            /\ joinTimeouts' = joinTimeouts + 1
    /\ UNCHANGED <<sc_running, frame_queue, session, ffmpeg_process,
                   ffmpeg_installed, stdin, written, cap_pc, cap_frame, enc_pc,
                   enc_frame, nextFrame, putBy, dropped, closedWrites, stopped>>

\* if self.ffmpeg_process: stdin.close(); wait(timeout=5.0), and kill() when
\* the process has not exited by then; return output_file
StopClose ==
    /\ UNCHANGED otherThanCapture
    /\ UNCHANGED <<codec, ffmpeg_hangs, encoders, sc_budget>>
    /\ stop_pc = "close"
    /\ stdin' = IF ffmpeg_process # 0
                THEN [stdin EXCEPT ![ffmpeg_process] = "closed"]
                ELSE stdin
    /\ IF ffmpeg_process # 0
       THEN /\ proc' = [proc EXCEPT ![ffmpeg_process] =
                         Ended(@, IF ffmpeg_hangs THEN "killed" ELSE "exited")]
            /\ enc_pc' = WaitOver(ffmpeg_process)
            /\ enc_wait' = [k \in Sessions |->
                               IF enc_wait[k] = ffmpeg_process
                               THEN 0 ELSE enc_wait[k]]
       ELSE UNCHANGED <<proc, enc_pc, enc_wait>>
    /\ stop_pc' = "idle"
    /\ stopped' = session
    /\ UNCHANGED <<sc_running, frame_queue, session, ffmpeg_process,
                   ffmpeg_installed, written, cap_pc, cap_frame, enc_frame,
                   nextFrame, putBy, dropped, closedWrites, joinTimeouts>>

\* ---- the subprocess -----------------------------------------------------

\* ffmpeg ends by itself while the pipeline runs (it fails, or is killed
\* from outside): writes to its input raise BrokenPipeError from then on.
ProcessDies(k) ==
    /\ UNCHANGED otherThanCapture
    /\ proc[k] = "running"
    /\ stdin[k] = "open"
    /\ sc_budget.deaths > 0
    /\ sc_budget' = [sc_budget EXCEPT !.deaths = @ - 1]
    /\ proc' = [proc EXCEPT ![k] = "exited"]
    /\ stdin' = [stdin EXCEPT ![k] = "broken"]
    /\ UNCHANGED <<sc_running, frame_queue, session, ffmpeg_process,
                   ffmpeg_installed, written, cap_pc, cap_frame, enc_pc,
                   enc_frame, stop_pc, nextFrame, putBy, dropped,
                   closedWrites, joinTimeouts, stopped, codec, enc_wait,
                   ffmpeg_hangs, encoders>>

\* ========================================================================
\* Upload queue: state and helpers
\* ========================================================================
Paths == {"a.zip"}
EmptyPath == ""
NoPath == "<no path>"
Node == "platform.node()"
OsName == "platform.system() platform.release()"
NoRec == [file |-> <<0, 0>>, path |-> NoPath, ts |-> 0, machine |-> Node,
          os |-> OsName, retries |-> 0, attempts |-> 0, waits |-> <<>>]

\* int(time.time()) for a clock reading of t ticks
Sec(t) == FirstSec + (t \div TicksPerSec)

\* str(n): the decimal digits of n
RECURSIVE Digits(_)
Digits(n) == IF n < 10 THEN <<n>> ELSE Append(Digits(n \div 10), n % 10)

\* a in b, for strings
IsSubstring(a, b) ==
    \E i \in 1..(Len(b) - Len(a) + 1) : SubSeq(b, i, i + Len(a) - 1) = a

\* f"{n}" in f, for the file name f"queue_{name[1]}_{name[2]}.json": the
\* digits of n have to lie inside one of the two numbers of the name.
NameContains(name, n) ==
    \/ IsSubstring(Digits(n), Digits(name[1]))
    \/ IsSubstring(Digits(n), Digits(name[2]))

\* A record left in the queue directory by something else than
\* upload_recording: it carries no 'path'.
LegacyRecord == [name |-> <<FirstSec - 1, FirstId - 1>>, path |-> NoPath,
                 ts |-> 0, machine |-> Node, os |-> OsName, retries |-> 0]

\* A record an earlier run of the program left behind for an archive that
\* is still there; it was written one tick before the clock of the model
\* starts, timestamp and file name within the same second.
EarlierRecord == [name |-> <<Sec(-1), FirstId - 2>>, path |-> "a.zip",
                  ts |-> -1, machine |-> Node, os |-> OsName, retries |-> 0]

\* the record json.load returns for a file, as a fresh in-memory dict
Loaded(f) == [file |-> f.name, path |-> f.path, ts |-> f.ts,
              machine |-> f.machine, os |-> f.os, retries |-> f.retries,
              attempts |-> 0, waits |-> <<>>]

\* the sequences that list every element of the set S once (os.listdir
\* returns the files in arbitrary order)
Orderings(S) ==
    {q \in [1..Cardinality(S) -> S] : \A i, j \in DOMAIN q : i # j => q[i] # q[j]}

InMemory == Range(upload_queue) \cup (IF w_rec = NoRec THEN {} ELSE {w_rec})

UpInitWith(submits, fails) ==
    /\ up_running = FALSE
    /\ queue_dir \in {{}, {LegacyRecord, EarlierRecord}}
    /\ archives = Paths
    /\ upload_queue = <<>>
    /\ w_pc = "down"
    /\ w_rec = NoRec
    /\ s_pc = "idle"
    /\ s_rec = NoRec
    /\ s_result = [path |-> EmptyPath, existed |-> FALSE, ret |-> "none"]
    /\ now = 0
    /\ failuresLeft = fails
    /\ submitsLeft = submits
    /\ runs = 0
    /\ everWritten = {f.name : f \in queue_dir}
    /\ delivered = {}
    /\ abandoned = {}
    /\ lastLoad = [queued |-> 0, removed |-> 0]

UpInit == UpInitWith(MaxSubmits, MaxFailures)

\* the same with one task and enough failures to reach the retry ceiling
RetryInit == UpInitWith(RetrySubmits, RetryFailures)

\* a load that does not look for the archive
LoadableAnyArchive(f) == f.path # NoPath

\* if 'path' in record and os.path.exists(record['path'])
Loadable(f) == f.path # NoPath /\ f.path \in archives

\* Uploader.__init__: starts the worker thread and loads the durable
\* records: each record with an existing archive is enqueued, every other
\* record is removed from the queue directory.
Construct ==
    /\ UNCHANGED otherThanUploader
    /\ ~up_running
    /\ runs < MaxRuns
    /\ runs' = runs + 1
    /\ up_running' = TRUE
    /\ w_pc' = "get"
    /\ \E order \in Orderings({f \in queue_dir : Loadable(f)}) :
          upload_queue' = [i \in DOMAIN order |-> Loaded(order[i])]
    /\ queue_dir' = {f \in queue_dir : Loadable(f)}
    /\ lastLoad' = [queued |-> Cardinality({f \in queue_dir : Loadable(f)}),
                    removed |-> Cardinality({f \in queue_dir : ~Loadable(f)})]
    /\ UNCHANGED <<archives, w_rec, s_pc, s_rec, s_result, now, failuresLeft, submitsLeft,
                   everWritten, delivered, abandoned>>

\* The process dies: the in-memory queue and the threads are gone, the
\* files stay.
Crash ==
    /\ UNCHANGED otherThanUploader
    /\ up_running
    /\ runs < MaxRuns
    /\ up_running' = FALSE
    /\ upload_queue' = <<>>
    /\ w_pc' = "down"
    /\ w_rec' = NoRec
    /\ s_pc' = "idle"
    /\ s_rec' = NoRec
    /\ UNCHANGED <<queue_dir, archives, s_result, now, failuresLeft, submitsLeft, runs, everWritten,
                   delivered, abandoned, lastLoad>>

\* an archive is removed from outside
RemoveArchive(p) ==
    /\ UNCHANGED otherThanUploader
    /\ p \in archives
    /\ archives' = archives \ {p}
    /\ UNCHANGED <<up_running, queue_dir, upload_queue, w_pc, w_rec, s_pc, s_rec,
                   s_result, now, failuresLeft, submitsLeft, runs, everWritten, delivered, abandoned,
                   lastLoad>>

\* ---- upload_recording ----------------------------------------------------

\* a validation that only looks at the string
ValidPathNotEmpty(p) == p # EmptyPath

\* if not recording_path or not os.path.exists(recording_path)
ValidPath(p) == p # EmptyPath /\ p \in archives

\* the existence check and, when it passes, the record with its timestamp
SubmitBegin(p) ==
    /\ UNCHANGED otherThanUploader
    /\ up_running
    /\ s_pc = "idle"
    /\ submitsLeft > 0
    /\ IF ValidPath(p)
       THEN /\ \E t \in now..MaxTick :
                  /\ now' = t
                  /\ s_rec' = [file |-> <<0, FirstId + submitsLeft>>, path |-> p,
                               ts |-> t, machine |-> Node, os |-> OsName,
                               retries |-> 0, attempts |-> 0, waits |-> <<>>]
            /\ s_pc' = "write"
            /\ submitsLeft' = submitsLeft - 1
            /\ s_result' = [path |-> p, existed |-> p \in archives,
                            ret |-> "pending"]
       ELSE /\ s_result' = [path |-> p, existed |-> p \in archives,
                            ret |-> "False"]
            /\ UNCHANGED <<s_rec, s_pc, submitsLeft, now, failuresLeft>>
    /\ UNCHANGED <<up_running, queue_dir, archives, upload_queue, w_pc, w_rec,
                   failuresLeft, runs, everWritten, delivered, abandoned, lastLoad>>

\* upload_recording without the write of the durable record
SubmitWriteSkipped ==
    /\ UNCHANGED otherThanUploader
    /\ s_pc = "write"
    /\ \E t \in now..MaxTick :
          /\ now' = t
          /\ s_rec' = [s_rec EXCEPT !.file = <<Sec(t), s_rec.file[2]>>]
    /\ s_pc' = "put"
    /\ UNCHANGED <<up_running, queue_dir, everWritten, archives, upload_queue,
                   w_pc, w_rec, s_result, failuresLeft, submitsLeft, runs, delivered,
                   abandoned, lastLoad>>

\* queue_file = f"queue_{int(time.time())}_{id(record)}.json"; json.dump
SubmitWrite ==
    /\ UNCHANGED otherThanUploader
    /\ s_pc = "write"
    /\ \E t \in now..MaxTick :
          LET name == <<Sec(t), s_rec.file[2]>>
          IN /\ now' = t
             /\ queue_dir' = queue_dir \cup
                    {[name |-> name, path |-> s_rec.path, ts |-> s_rec.ts,
                      machine |-> s_rec.machine, os |-> s_rec.os,
                      retries |-> s_rec.retries]}
             /\ everWritten' = everWritten \cup {name}
             /\ s_rec' = [s_rec EXCEPT !.file = name]
    /\ s_pc' = "put"
    /\ UNCHANGED <<up_running, archives, upload_queue, w_pc, w_rec, s_result,
                   failuresLeft, submitsLeft, runs, delivered, abandoned, lastLoad>>

\* self.upload_queue.put(record); return True
SubmitPut ==
    /\ UNCHANGED otherThanUploader
    /\ s_pc = "put"
    /\ upload_queue' = Append(upload_queue, s_rec)
    /\ s_result' = [s_result EXCEPT !.ret = "True"]
    /\ s_rec' = NoRec
    /\ s_pc' = "idle"
    /\ UNCHANGED <<up_running, queue_dir, archives, w_pc, w_rec, now, failuresLeft, submitsLeft,
                   runs, everWritten, delivered, abandoned, lastLoad>>

\* ---- _do_upload ------------------------------------------------------------

Statuses == {200, 201, 204, 301, 400, 404, 500, 503}
Transports == {"ok", "RequestException", "Exception"}
DuInputs == [readable : BOOLEAN, transport : Transports, status : Statuses,
             bodyJson : BOOLEAN]

\* The body of the try block: "True", "False", or the class of the
\* exception that leaves it.  open() fails on an unreadable archive,
\* requests.post raises on a transport error, response.json() raises on a
\* body that is not JSON.
DoUploadBody(in) ==
    IF ~in.readable THEN "Exception"
    ELSE IF in.transport # "ok" THEN in.transport
    ELSE IF in.status = StatusOk
         THEN (IF in.bodyJson THEN "True" ELSE "Exception")
         ELSE "False"

\* _do_upload with a handler for requests.RequestException only
DoUploadNarrowHandler(in) ==
    IF DoUploadBody(in) = "RequestException" THEN "False" ELSE DoUploadBody(in)

\* _do_upload: both handlers return False
DoUpload(in) ==
    IF DoUploadBody(in) \in {"RequestException", "Exception"}
    THEN "False"
    ELSE DoUploadBody(in)

DuInit ==
    /\ du_in \in DuInputs
    /\ du_out = "pending"

DoUploadCall ==
    /\ UNCHANGED otherThanDoUpload
    /\ du_out = "pending"
    /\ du_out' = DoUpload(du_in)
    /\ UNCHANGED du_in

\* ---- _upload_worker --------------------------------------------------------

\* 2 ** n
RECURSIVE Pow2(_)
Pow2(n) == IF n = 0 THEN 1 ELSE 2 * Pow2(n - 1)

Min(a, b) == IF a <= b THEN a ELSE b

\* a backoff without the cap
BackoffUncapped(retries) == Pow2(retries)

\* backoff_time = min(30, 2 ** record['retries'])
Backoff(retries) == Min(BackoffCap, Pow2(retries))

\* queue_files = [f for f in os.listdir(self.queue_dir)
\*                if f"{int(record['timestamp'])}" in f]
QueueFilesOf(rec) == {f \in queue_dir : NameContains(f.name, Sec(rec.ts))}

\* A worker that takes a record to delivery without looking for its archive.
WorkerGetNoRecheck ==
    /\ UNCHANGED otherThanUploader
    /\ w_pc = "get"
    /\ upload_queue # <<>>
    /\ upload_queue' = Tail(upload_queue)
    /\ w_rec' = Head(upload_queue)
    /\ w_pc' = "upload"
    /\ UNCHANGED <<up_running, queue_dir, archives, s_pc, s_rec, s_result, now, failuresLeft,
                   submitsLeft, runs, everWritten, delivered, abandoned, lastLoad>>

\* record = self.upload_queue.get(timeout=5.0); a record whose archive is
\* gone is logged and discarded.
WorkerGet ==
    /\ UNCHANGED otherThanUploader
    /\ w_pc = "get"
    /\ upload_queue # <<>>
    /\ upload_queue' = Tail(upload_queue)
    /\ IF Head(upload_queue).path \in archives
       THEN /\ w_rec' = Head(upload_queue)
            /\ w_pc' = "upload"
       ELSE /\ w_rec' = NoRec
            /\ w_pc' = "get"
    /\ UNCHANGED <<up_running, queue_dir, archives, s_pc, s_rec, s_result, now, failuresLeft,
                   submitsLeft, runs, everWritten, delivered, abandoned, lastLoad>>

\* success = self._do_upload(recording_path, record) and the two branches
\* that follow it.  An exception that left _do_upload would reach the outer
\* handler of the loop, which logs it and goes on with the next record.
WorkerUpload ==
    /\ UNCHANGED otherThanUploader
    /\ w_pc = "upload"
    /\ \E out \in {DoUpload(in) : in \in {i \in DuInputs :
                                  i.readable = (w_rec.path \in archives)}} :
             LET rec == [w_rec EXCEPT !.attempts = @ + 1]
                 failed == [rec EXCEPT !.retries = @ + 1]
             IN CASE out = "True" ->
                       /\ queue_dir' = queue_dir \ QueueFilesOf(rec)
                       /\ delivered' = delivered \cup {rec.file}
                       /\ w_rec' = NoRec
                       /\ w_pc' = "get"
                       /\ UNCHANGED <<abandoned, failuresLeft>>
                  [] out = "False" /\ failed.retries <= MaxRetries ->
                       /\ failuresLeft > 0
                       /\ failuresLeft' = failuresLeft - 1
                       /\ w_rec' = [failed EXCEPT
                                      !.waits = Append(@, Backoff(failed.retries))]
                       /\ w_pc' = "backoff"
                       /\ UNCHANGED <<queue_dir, delivered, abandoned>>
                  [] out = "False" /\ failed.retries > MaxRetries ->
                       /\ failuresLeft > 0
                       /\ failuresLeft' = failuresLeft - 1
                       /\ abandoned' = abandoned \cup {failed}
                       /\ w_rec' = NoRec
                       /\ w_pc' = "get"
                       /\ UNCHANGED <<queue_dir, delivered>>
                  [] OTHER ->
                       /\ w_rec' = NoRec
                       /\ w_pc' = "get"
                       /\ UNCHANGED <<queue_dir, delivered, abandoned, failuresLeft>>
    /\ UNCHANGED <<up_running, archives, upload_queue, s_pc, s_rec, s_result,
                   now, submitsLeft, runs, everWritten, lastLoad>>

\* A worker that sleeps and then forgets the record.
WorkerRequeueDropped ==
    /\ UNCHANGED otherThanUploader
    /\ w_pc = "backoff"
    /\ w_rec' = NoRec
    /\ w_pc' = "get"
    /\ UNCHANGED <<up_running, queue_dir, archives, upload_queue, s_pc, s_rec, s_result, now,
                   failuresLeft, submitsLeft, runs, everWritten, delivered, abandoned, lastLoad>>

\* time.sleep(backoff_time); self.upload_queue.put(record)
WorkerRequeue ==
    /\ UNCHANGED otherThanUploader
    /\ w_pc = "backoff"
    /\ upload_queue' = Append(upload_queue, w_rec)
    /\ w_rec' = NoRec
    /\ w_pc' = "get"
    /\ UNCHANGED <<up_running, queue_dir, archives, s_pc, s_rec, s_result, now, failuresLeft,
                   submitsLeft, runs, everWritten, delivered, abandoned, lastLoad>>

\* ========================================================================
\* Clock: get_start_time, set_start_time, get_timestamp_ns
\* ========================================================================
NoTime == -1
Callers == {"mouse", "keyboard"}

TmInit ==
    /\ START_TIME_NS = NoTime
    /\ perf_counter = 0
    /\ tm_pc = [p \in Callers |-> "idle"]
    /\ tm_now = [p \in Callers |-> NoTime]
    /\ tm_ts = [p \in Callers |-> 0]
    /\ tm_origin = [p \in Callers |-> NoTime]
    /\ tm_active = {}

\* set_start_time(): START_TIME_NS = time.perf_counter_ns().  Nothing in the
\* program calls it; it is taken as the set-up of a session, before any
\* producer has asked for a timestamp.
SetStartTime ==
    /\ UNCHANGED otherThanTiming
    /\ tm_active = {}
    /\ perf_counter < MaxClock
    /\ START_TIME_NS' = perf_counter
    /\ perf_counter' = perf_counter + 1
    /\ UNCHANGED <<tm_pc, tm_now, tm_ts, tm_origin, tm_active>>

\* get_timestamp_ns(): the left operand time.perf_counter_ns() is evaluated
\* first, then get_start_time() is called.
TimestampRead(p) ==
    /\ UNCHANGED otherThanTiming
    /\ tm_pc[p] = "idle"
    /\ perf_counter < MaxClock
    /\ tm_now' = [tm_now EXCEPT ![p] = perf_counter]
    /\ perf_counter' = perf_counter + 1
    /\ tm_pc' = [tm_pc EXCEPT ![p] = "check"]
    /\ tm_active' = tm_active \cup {p}
    /\ UNCHANGED <<START_TIME_NS, tm_ts, tm_origin>>

\* get_start_time(): if START_TIME_NS is None:
GetStartCheck(p) ==
    /\ UNCHANGED otherThanTiming
    /\ tm_pc[p] = "check"
    /\ tm_pc' = [tm_pc EXCEPT ![p] =
                   IF START_TIME_NS = NoTime THEN "init" ELSE "return"]
    /\ UNCHANGED <<START_TIME_NS, perf_counter, tm_now, tm_ts, tm_origin,
                   tm_active>>

\* get_start_time(): START_TIME_NS = time.perf_counter_ns()
GetStartInit(p) ==
    /\ UNCHANGED otherThanTiming
    /\ tm_pc[p] = "init"
    /\ START_TIME_NS' = perf_counter
    /\ perf_counter' = perf_counter + 1
    /\ tm_pc' = [tm_pc EXCEPT ![p] = "return"]
    /\ UNCHANGED <<tm_now, tm_ts, tm_origin, tm_active>>

\* return START_TIME_NS, and the subtraction of get_timestamp_ns
GetStartReturn(p) ==
    /\ UNCHANGED otherThanTiming
    /\ tm_pc[p] = "return"
    /\ tm_origin' = [tm_origin EXCEPT ![p] = START_TIME_NS]
    /\ tm_ts' = [tm_ts EXCEPT ![p] = tm_now[p] - START_TIME_NS]
    /\ tm_pc' = [tm_pc EXCEPT ![p] = "idle"]
    /\ UNCHANGED <<START_TIME_NS, perf_counter, tm_now, tm_active>>

\* ========================================================================
\* Frame timestamps: _capture_worker
\* ========================================================================
FsInit ==
    /\ frame_timestamp_ns = -1
    /\ frame_instant = -1

\* _capture_worker in a due iteration: timestamp_ns = time.perf_counter_ns()
\* for the frame it is about to grab.  The next reading of the counter, by this or another thread, may
\* fall in the same nanosecond or in a later one.
FrameStamp ==
    /\ UNCHANGED <<scVars, upVars, duVars, mxVars, fnVars, ilVars, apVars>>
    /\ perf_counter < MaxClock
    /\ frame_timestamp_ns' = perf_counter
    /\ frame_instant' = perf_counter
    /\ \E d \in {0, 1} : perf_counter' = perf_counter + d
    /\ UNCHANGED <<START_TIME_NS, tm_pc, tm_now, tm_ts, tm_origin, tm_active>>

\* ========================================================================
\* Packaging: the pure steps of finalize
\* ========================================================================

\* Python integers are unbounded: a number n of nanoseconds is held as
\* <<n div 1_000_000, n mod 1_000_000>>, whole milliseconds and the rest.
NoT == <<>>

\* a - b
TsSub(a, b) ==
    LET ms == a[1] - b[1]
        sub == a[2] - b[2]
    IN IF sub < 0 THEN <<ms - 1, sub + NsPerMs>> ELSE <<ms, sub>>

\* A conversion that rounds down instead of towards zero.
IntOfMsFloor(d) == d[1]

\* int(d / 1_000_000): the quotient rounded towards zero
IntOfMs(d) == IF d[1] < 0 /\ d[2] > 0 THEN d[1] + 1 ELSE d[1]

\* d / 1_000_000_000, held as <<whole seconds, nanoseconds>>
Seconds(d) ==
    LET MsPerSec == NsPerSec \div NsPerMs
    IN <<d[1] \div MsPerSec, (d[1] % MsPerSec) * NsPerMs + d[2]>>

\* what json.load finds in an events file: parse is false for a file that
\* is not JSON, has_events for "events" in data; an event without "t" has
\* t = NoT
EmptyData == [parse |-> TRUE, has_events |-> TRUE, events |-> <<>>]
Unparseable == [parse |-> FALSE, has_events |-> FALSE, events |-> <<>>]
NoEventsKey == [parse |-> TRUE, has_events |-> FALSE, events |-> <<>>]
HasT(e) == e.t # NoT

NoResult == <<>>
NoEvents == [meta |-> "pending", events |-> <<>>]

\* A duration that gives the placeholder for any file.
CalculateDurationPlaceholder(exists, data) == <<DefaultDuration, 0>>

\* _calculate_duration(); exists stands for
\* self.events_file and os.path.exists(self.events_file)
CalculateDuration(exists, data) ==
    IF ~exists THEN <<DefaultDuration, 0>>
    ELSE IF ~data.parse THEN <<ErrorDuration, 0>>
    ELSE IF data.has_events /\ Len(data.events) > 1
         THEN LET first_event == data.events[1]
                  last_event == data.events[Len(data.events)]
              IN IF HasT(first_event) /\ HasT(last_event)
                 THEN Seconds(TsSub(last_event.t, first_event.t))
                 ELSE <<ErrorDuration, 0>>
         ELSE <<DefaultDuration, 0>>

\* _normalize_events(): meta is "none" where the return has no header,
\* "plain" for the header without start_time
NormalizeEvents(exists, data) ==
    IF ~exists THEN [meta |-> "none", events |-> <<>>]
    ELSE IF ~data.parse THEN [meta |-> "plain", events |-> <<>>]
    ELSE IF ~data.has_events \/ data.events = <<>>
         THEN [meta |-> "plain", events |-> <<>>]
    ELSE IF \E i \in DOMAIN data.events : ~HasT(data.events[i])
         THEN [meta |-> "plain", events |-> <<>>]
    ELSE LET first_timestamp == data.events[1].t
         IN [meta |-> "start_time",
             events |-> [i \in DOMAIN data.events |->
                           [data.events[i] EXCEPT
                              !.t = IntOfMs(TsSub(@, first_timestamp))]]]

\* the timestamps and kinds of the events of the input files
TsValues == {<<1000, 0>>, <<3000, 0>>, <<1000, 1>>, <<999, 999999>>,
             <<-1, 999999>>}
Kinds == {"mouse_down", "key_down"}
Events == [t : TsValues, kind : Kinds]
SeqsUpTo(S, n) == UNION {[1..k -> S] : k \in 0..n}
EventFiles ==
    {[parse |-> TRUE, has_events |-> TRUE, events |-> q] :
        q \in SeqsUpTo(Events, MaxEvents)}
    \cup {Unparseable, NoEventsKey}
    \cup {[parse |-> TRUE, has_events |-> TRUE,
           events |-> <<[t |-> NoT, kind |-> "key_down"], e>>] : e \in Events}

FnInit ==
    /\ fn_exists \in BOOLEAN
    /\ fn_data \in EventFiles
    /\ ~fn_exists => fn_data = EmptyData
    /\ fn_duration = NoResult
    /\ fn_events = NoEvents

CalculateDurationCall ==
    /\ UNCHANGED otherThanPure
    /\ fn_duration = NoResult
    /\ fn_duration' = CalculateDuration(fn_exists, fn_data)
    /\ UNCHANGED <<fn_exists, fn_data, fn_events>>

NormalizeEventsCall ==
    /\ UNCHANGED otherThanPure
    /\ fn_events = NoEvents
    /\ fn_events' = NormalizeEvents(fn_exists, fn_data)
    /\ UNCHANGED <<fn_exists, fn_data, fn_duration>>

\* ========================================================================
\* Packaging: TimelineMuxer
\* ========================================================================
VideoPath == "screen.mp4"
EventsPath == "events.json"
MxPaths == {VideoPath, EventsPath}
MxIds == {Sec(t) : t \in 0..MaxTick}
MxNames == {"metadata.json", "events.json", "video.mp4"}

NoDir == [exists |-> FALSE, files |-> {}, duration |-> NoResult,
          events |-> NoEvents]
NoZip == [exists |-> FALSE, entries |-> {}]
Ret(kind, id) == [kind |-> kind, id |-> id]

\* the events files the logger leaves for the muxer
MuxEventFiles ==
    {[parse |-> TRUE, has_events |-> TRUE,
      events |-> <<[t |-> <<1000, 0>>, kind |-> "mouse_down"],
                   [t |-> <<3000, 0>>, kind |-> "key_down"]>>],
     Unparseable}

MxInit ==
    /\ mx_running = FALSE
    /\ recording_id = 0
    /\ video_file = NoPath
    /\ events_file = NoPath
    /\ mx_exists = {}
    /\ mx_data = EmptyData
    /\ mx_dirs = [i \in MxIds |-> NoDir]
    /\ mx_zips = [i \in MxIds |-> NoZip]
    /\ mx_pc = "idle"
    /\ mx_ret = Ret("none", 0)
    /\ mx_now = 0
    /\ mx_finalizes = 0
    /\ mx_starts = 0
    /\ mx_seen = [running |-> FALSE, id |-> FALSE, video |-> FALSE,
                  events |-> FALSE]

\* start(): returns at once while running; else sets running, names the
\* recording after the clock second and makes its working directory.
MuxStart ==
    /\ UNCHANGED otherThanMuxer
    /\ mx_pc = "idle"
    /\ ~mx_running
    /\ mx_starts < MaxMuxSessions
    /\ mx_starts' = mx_starts + 1
    /\ mx_running' = TRUE
    /\ \E t \in mx_now..MaxTick :
          /\ mx_now' = t
          /\ recording_id' = Sec(t)
          /\ mx_dirs' = [mx_dirs EXCEPT ![Sec(t)].exists = TRUE]
    /\ UNCHANGED <<video_file, events_file, mx_exists, mx_data, mx_zips,
                   mx_pc, mx_ret, mx_finalizes, mx_seen>>

\* stop(): returns at once while not running, else clears running.
MuxStop ==
    /\ UNCHANGED otherThanMuxer
    /\ mx_pc = "idle"
    /\ mx_running
    /\ mx_running' = FALSE
    /\ UNCHANGED <<recording_id, video_file, events_file, mx_exists, mx_data,
                   mx_dirs, mx_zips, mx_pc, mx_ret, mx_now, mx_finalizes,
                   mx_starts, mx_seen>>

\* set_video_file(video_path)
SetVideoFile(p) ==
    /\ UNCHANGED otherThanMuxer
    /\ mx_pc = "idle"
    /\ video_file # p
    /\ video_file' = p
    /\ UNCHANGED <<mx_running, recording_id, events_file, mx_exists, mx_data,
                   mx_dirs, mx_zips, mx_pc, mx_ret, mx_now, mx_finalizes,
                   mx_starts, mx_seen>>

\* set_events_file(events_path)
SetEventsFile(p) ==
    /\ UNCHANGED otherThanMuxer
    /\ mx_pc = "idle"
    /\ events_file # p
    /\ events_file' = p
    /\ UNCHANGED <<mx_running, recording_id, video_file, mx_exists, mx_data,
                   mx_dirs, mx_zips, mx_pc, mx_ret, mx_now, mx_finalizes,
                   mx_starts, mx_seen>>

\* The frame pipeline leaves its video, the logger its events file.
ProduceFile(p, d) ==
    /\ UNCHANGED otherThanMuxer
    /\ p \notin mx_exists
    /\ mx_exists' = mx_exists \cup {p}
    /\ mx_data' = IF p = EventsPath THEN d ELSE mx_data
    /\ UNCHANGED <<mx_running, recording_id, video_file, events_file,
                   mx_dirs, mx_zips, mx_pc, mx_ret, mx_now, mx_finalizes,
                   mx_starts, mx_seen>>

\* Something outside the program removes a file.
RemoveFile(p) ==
    /\ UNCHANGED otherThanMuxer
    /\ p \in mx_exists
    /\ mx_exists' = mx_exists \ {p}
    /\ mx_data' = IF p = EventsPath THEN EmptyData ELSE mx_data
    /\ UNCHANGED <<mx_running, recording_id, video_file, events_file,
                   mx_dirs, mx_zips, mx_pc, mx_ret, mx_now, mx_finalizes,
                   mx_starts, mx_seen>>

\* x and os.path.exists(x)
Registered(f) == f # NoPath /\ f # EmptyPath /\ f \in mx_exists

\* A validation that does not look at the events file.
ValidatedVideoOnly == recording_id # 0 /\ Registered(video_file)

\* the three tests of finalize(): recording_id, video file, events file
Validated ==
    recording_id # 0 /\ Registered(video_file) /\ Registered(events_file)

\* A finalize() that leaves a running session running.
FinalizeBeginNoStop ==
    /\ UNCHANGED otherThanMuxer
    /\ mx_pc = "idle"
    /\ mx_finalizes < MaxFinalizes
    /\ mx_finalizes' = mx_finalizes + 1
    /\ mx_seen' = [running |-> mx_running, id |-> recording_id # 0,
                   video |-> Registered(video_file),
                   events |-> Registered(events_file)]
    /\ IF Validated
       THEN mx_pc' = "metadata" /\ mx_ret' = Ret("pending", 0)
       ELSE mx_pc' = "idle" /\ mx_ret' = Ret("null", 0)
    /\ UNCHANGED <<mx_running, recording_id, video_file, events_file,
                   mx_exists, mx_data, mx_dirs, mx_zips, mx_now, mx_starts>>

\* finalize(), up to the validation: stops a running session, returns None
\* without a recording id, a video file or an events file.
FinalizeBegin ==
    /\ UNCHANGED otherThanMuxer
    /\ mx_pc = "idle"
    /\ mx_finalizes < MaxFinalizes
    /\ mx_finalizes' = mx_finalizes + 1
    /\ mx_running' = FALSE
    /\ mx_seen' = [running |-> mx_running, id |-> recording_id # 0,
                   video |-> Registered(video_file),
                   events |-> Registered(events_file)]
    /\ IF Validated
       THEN mx_pc' = "metadata" /\ mx_ret' = Ret("pending", 0)
       ELSE mx_pc' = "idle" /\ mx_ret' = Ret("null", 0)
    /\ UNCHANGED <<recording_id, video_file, events_file, mx_exists, mx_data,
                   mx_dirs, mx_zips, mx_now, mx_starts>>

\* metadata = {..., "duration": self._calculate_duration(), ...} and the
\* json.dump into metadata.json
FinalizeMetadata ==
    /\ UNCHANGED otherThanMuxer
    /\ mx_pc = "metadata"
    /\ mx_dirs' = [mx_dirs EXCEPT ![recording_id] =
                     [@ EXCEPT !.files = @ \cup {"metadata.json"},
                               !.duration = CalculateDuration(
                                   Registered(events_file), mx_data)]]
    /\ mx_pc' = "events"
    /\ UNCHANGED <<mx_running, recording_id, video_file, events_file,
                   mx_exists, mx_data, mx_zips, mx_ret, mx_now, mx_finalizes,
                   mx_starts, mx_seen>>

\* events = self._normalize_events() and the json.dump into events.json
FinalizeEvents ==
    /\ UNCHANGED otherThanMuxer
    /\ mx_pc = "events"
    /\ mx_dirs' = [mx_dirs EXCEPT ![recording_id] =
                     [@ EXCEPT !.files = @ \cup {"events.json"},
                               !.events = NormalizeEvents(
                                   Registered(events_file), mx_data)]]
    /\ mx_pc' = "copy"
    /\ UNCHANGED <<mx_running, recording_id, video_file, events_file,
                   mx_exists, mx_data, mx_zips, mx_ret, mx_now, mx_finalizes,
                   mx_starts, mx_seen>>

\* shutil.copy2(self.video_file, video_output): raises out of finalize when
\* the video has gone since the validation.
FinalizeCopy ==
    /\ UNCHANGED otherThanMuxer
    /\ mx_pc = "copy"
    /\ IF video_file \in mx_exists
       THEN /\ mx_dirs' = [mx_dirs EXCEPT ![recording_id].files =
                             @ \cup {"video.mp4"}]
            /\ mx_pc' = "zip"
            /\ UNCHANGED mx_ret
       ELSE /\ mx_ret' = Ret("raised", 0)
            /\ mx_pc' = "idle"
            /\ UNCHANGED mx_dirs
    /\ UNCHANGED <<mx_running, recording_id, video_file, events_file,
                   mx_exists, mx_data, mx_zips, mx_now, mx_finalizes,
                   mx_starts, mx_seen>>

\* A ZipFile over the output directory, which holds the archive itself.
FinalizeZipOutputDir ==
    /\ UNCHANGED otherThanMuxer
    /\ mx_pc = "zip"
    /\ mx_zips' = [mx_zips EXCEPT ![recording_id] =
                     [exists |-> TRUE,
                      entries |-> mx_dirs[recording_id].files
                                     \cup {"recording.zip"}]]
    /\ mx_ret' = Ret("zip", recording_id)
    /\ mx_pc' = "idle"
    /\ UNCHANGED <<mx_running, recording_id, video_file, events_file,
                   mx_exists, mx_data, mx_dirs, mx_now, mx_finalizes,
                   mx_starts, mx_seen>>

\* the ZipFile over os.walk(self.recording_dir), and return zip_path
FinalizeZip ==
    /\ UNCHANGED otherThanMuxer
    /\ mx_pc = "zip"
    /\ mx_zips' = [mx_zips EXCEPT ![recording_id] =
                     [exists |-> TRUE, entries |-> mx_dirs[recording_id].files]]
    /\ mx_ret' = Ret("zip", recording_id)
    /\ mx_pc' = "idle"
    /\ UNCHANGED <<mx_running, recording_id, video_file, events_file,
                   mx_exists, mx_data, mx_dirs, mx_now, mx_finalizes,
                   mx_starts, mx_seen>>

\* ========================================================================
\* Event logger: InputLogger
\* ========================================================================
Tracked == {"left", "right", "middle"}
Abs(n) == IF n < 0 THEN -n ELSE n

NoInput == [kind |-> "none", x |-> 0, y |-> 0, button |-> "",
            pressed |-> FALSE, was_held |-> FALSE]
NoEv == [t |-> NoT, kind |-> "none", button |-> "", x |-> 0, y |-> 0,
         start_x |-> 0, start_y |-> 0, duration_ns |-> 0]
NoPress == [x |-> 0, y |-> 0, time |-> NoTime, recorded |-> FALSE]
NoFile == [exists |-> FALSE, events |-> <<>>]

\* the dict an event is built as (lines 94-98); key is the key= of a
\* keyboard event
Ev(kind, button, x, y) ==
    [NoEv EXCEPT !.kind = kind, !.button = button, !.x = x, !.y = y]

IlInitWith(calls, callbacks) ==
    /\ il_running = FALSE
    /\ events = <<>>
    /\ output_file = 0
    /\ mouse_listener = FALSE
    /\ keyboard_listener = FALSE
    /\ drag_state = [left |-> FALSE, right |-> FALSE, middle |-> FALSE,
                     start_x |-> 0, start_y |-> 0, start_time |-> 0]
    /\ il_files = [i \in MxIds |-> NoFile]
    /\ il_ret = Ret("none", 0)
    /\ il_stop_pc = "idle"
    /\ il_now = 0
    /\ cb_pc = [th \in Callers |-> "idle"]
    /\ cb_in = [th \in Callers |-> NoInput]
    /\ cb_ev = [th \in Callers |-> NoEv]
    /\ il_budget = [calls |-> calls, callbacks |-> callbacks]
    /\ il_starts = 0
    /\ il_stops = 0
    /\ il_registered = 0
    /\ held = {}
    /\ pressAt = [b \in Tracked |-> NoPress]
    /\ cb_quiet = [th \in Callers |-> FALSE]
    /\ il_lock = "none"

IlInit == IlInitWith(MaxLoggerCalls, MaxCallbacks)
DragIlInit == IlInitWith(DragStarts, DragCallbacks)

\* start(): returns at once while running; else sets running and the output
\* file, clears the events and starts the two listeners.
LoggerStart ==
    /\ UNCHANGED otherThanLogger
    /\ il_stop_pc = "idle"
    /\ il_lock = "none"
    /\ UNCHANGED il_lock
    /\ il_budget.calls > 0
    /\ il_budget' = [il_budget EXCEPT !.calls = @ - 1]
    /\ il_starts' = il_starts + 1
    /\ IF il_running
       THEN UNCHANGED <<il_running, events, output_file, mouse_listener,
                        keyboard_listener, il_registered, il_now>>
       ELSE /\ il_running' = TRUE
            /\ \E t \in il_now..MaxTick :
                  il_now' = t /\ output_file' = Sec(t)
            /\ events' = <<>>
            /\ mouse_listener' = TRUE
            /\ keyboard_listener' = TRUE
            /\ il_registered' = il_registered + 2
    /\ UNCHANGED <<drag_state, il_files, il_ret, il_stop_pc, cb_pc, cb_in,
                   cb_ev, il_stops, held, pressAt, cb_quiet, START_TIME_NS,
                   perf_counter>>

\* stop(), up to the listeners: returns None at once while not running; else
\* clears running and stops and forgets the two listeners.
LoggerStopBegin ==
    /\ UNCHANGED otherThanLogger
    /\ UNCHANGED il_lock
    /\ il_stop_pc = "idle"
    /\ il_budget.calls > 0
    /\ il_budget' = [il_budget EXCEPT !.calls = @ - 1]
    /\ il_stops' = il_stops + 1
    /\ IF il_running
       THEN /\ il_running' = FALSE
            /\ mouse_listener' = FALSE
            /\ keyboard_listener' = FALSE
            /\ il_stop_pc' = "save"
            /\ il_ret' = Ret("pending", 0)
       ELSE /\ il_ret' = Ret("null", 0)
            /\ UNCHANGED <<il_running, mouse_listener, keyboard_listener,
                           il_stop_pc>>
    /\ UNCHANGED <<events, output_file, drag_state, il_files, il_now, cb_pc,
                   cb_in, cb_ev, il_starts, il_registered, held, pressAt,
                   cb_quiet, START_TIME_NS, perf_counter>>

\* stop(): with self.lock: the caller takes the lock.  Listeners that were
\* stopped do not wait for callbacks that are under way.
LoggerStopLock ==
    /\ UNCHANGED otherThanLogger
    /\ il_stop_pc = "save"
    /\ il_lock = "none"
    /\ il_lock' = "stop"
    /\ il_stop_pc' = "write"
    /\ UNCHANGED <<il_running, events, output_file, mouse_listener,
                   keyboard_listener, drag_state, il_files, il_ret, il_now,
                   cb_pc, cb_in, cb_ev, il_budget, il_starts, il_stops,
                   il_registered, held, pressAt, cb_quiet, START_TIME_NS,
                   perf_counter>>

\* stop(): open(self.output_file, 'w') and json.dump of the events, inside
\* the with self.lock block
LoggerStopSave ==
    /\ UNCHANGED otherThanLogger
    /\ il_stop_pc = "write"
    /\ il_files' = [il_files EXCEPT ![output_file] =
                      [exists |-> TRUE, events |-> events]]
    /\ il_stop_pc' = "unlock"
    /\ UNCHANGED <<il_running, events, output_file, mouse_listener,
                   keyboard_listener, drag_state, il_ret, il_now, cb_pc,
                   cb_in, cb_ev, il_budget, il_starts, il_stops,
                   il_registered, held, pressAt, cb_quiet, il_lock,
                   START_TIME_NS, perf_counter>>

\* stop(): the end of the with self.lock block; return self.output_file
LoggerStopReturn ==
    /\ UNCHANGED otherThanLogger
    /\ il_stop_pc = "unlock"
    /\ il_lock' = "none"
    /\ il_ret' = Ret("file", output_file)
    /\ il_stop_pc' = "idle"
    /\ UNCHANGED <<il_running, events, output_file, mouse_listener,
                   keyboard_listener, drag_state, il_files, il_now, cb_pc,
                   cb_in, cb_ev, il_budget, il_starts, il_stops,
                   il_registered, held, pressAt, cb_quiet, START_TIME_NS,
                   perf_counter>>

\* get_timestamp_ns() taken as one step at counter reading c: the origin it
\* uses (set from the next reading when there is none yet), the timestamp,
\* and the number of readings it makes.  One tick of the counter is one
\* millisecond.
OriginAt(c) == IF START_TIME_NS = NoTime THEN c + 1 ELSE START_TIME_NS
TimestampAt(c) == <<c - OriginAt(c), 0>>
ReadingsAt(c) == IF START_TIME_NS = NoTime THEN 2 ELSE 1

\* An _add_event that does not test running.
AcceptsAlways == TRUE

\* _add_event: if not self.running: return
Accepts == il_running

\* _add_event up to the lock, for thread th at counter reading c: the event
\* gets its timestamp and the thread goes for the lock (position lock), or
\* the call returns and the thread goes on at rest.
AddEventBegin(th, ev, c, lock, rest) ==
    IF Accepts
    THEN /\ cb_ev' = [cb_ev EXCEPT ![th] = [ev EXCEPT !.t = TimestampAt(c)]]
         /\ START_TIME_NS' = OriginAt(c)
         /\ perf_counter' = c + ReadingsAt(c)
         /\ cb_pc' = [cb_pc EXCEPT ![th] = lock]
    ELSE /\ cb_pc' = [cb_pc EXCEPT ![th] = rest]
         /\ perf_counter' = c
         /\ UNCHANGED <<cb_ev, START_TIME_NS>>

\* a listener thread calls its callback with the arguments in
Deliver(th, in) ==
    /\ cb_pc[th] = "idle"
    /\ il_budget.callbacks > 0
    /\ il_budget' = [il_budget EXCEPT !.callbacks = @ - 1]
    /\ cb_in' = [cb_in EXCEPT ![th] = in]
    /\ cb_quiet' = [cb_quiet EXCEPT ![th] = ~il_running]

\* on_key_press / on_key_release
KeyCallback(kind, key) ==
    /\ UNCHANGED otherThanLogger
    /\ UNCHANGED il_lock
    /\ Deliver("keyboard", [NoInput EXCEPT !.kind = kind, !.button = key])
    /\ AddEventBegin("keyboard", Ev(kind, key, 0, 0), perf_counter, "append",
                     "idle")
    /\ UNCHANGED <<il_running, events, output_file, mouse_listener,
                   keyboard_listener, drag_state, il_files, il_ret,
                   il_stop_pc, il_now, il_starts, il_stops, il_registered,
                   held, pressAt>>

\* on_mouse_scroll (the amounts dx, dy of the event are left out)
ScrollCallback(x, y) ==
    /\ UNCHANGED otherThanLogger
    /\ UNCHANGED il_lock
    /\ Deliver("mouse", [NoInput EXCEPT !.kind = "scroll", !.x = x, !.y = y])
    /\ AddEventBegin("mouse", Ev("scroll", "", x, y), perf_counter, "append",
                     "idle")
    /\ UNCHANGED <<il_running, events, output_file, mouse_listener,
                   keyboard_listener, drag_state, il_files, il_ret,
                   il_stop_pc, il_now, il_starts, il_stops, il_registered,
                   held, pressAt>>

\* A test that looks at the left button only.
DragActiveLeftOnly == drag_state.left

\* self.drag_state['left'] or self.drag_state['right'] or
\* self.drag_state['middle']
DragActive == drag_state.left \/ drag_state.right \/ drag_state.middle

\* on_mouse_move
MoveCallback(x, y) ==
    /\ UNCHANGED otherThanLogger
    /\ UNCHANGED il_lock
    /\ Deliver("mouse", [NoInput EXCEPT !.kind = "move", !.x = x, !.y = y])
    /\ IF DragActive
       THEN AddEventBegin("mouse", Ev("mouse_drag", "", x, y), perf_counter,
                          "append", "idle")
       ELSE UNCHANGED <<cb_pc, cb_ev, START_TIME_NS, perf_counter>>
    /\ UNCHANGED <<il_running, events, output_file, mouse_listener,
                   keyboard_listener, drag_state, il_files, il_ret,
                   il_stop_pc, il_now, il_starts, il_stops, il_registered,
                   held, pressAt>>

\* on_mouse_click, up to the lock of its first _add_event
ClickCallback(x, y, button, pressed) ==
    /\ UNCHANGED otherThanLogger
    /\ UNCHANGED il_lock
    /\ Deliver("mouse", [kind |-> "click", x |-> x, y |-> y,
                         button |-> button, pressed |-> pressed,
                         was_held |-> button \in held])
    /\ held' = IF pressed /\ button \in Tracked
               THEN held \cup {button}
               ELSE held \ {button}
    /\ AddEventBegin("mouse",
                     Ev(IF pressed THEN "mouse_down" ELSE "mouse_up",
                        button, x, y),
                     perf_counter, "append", "after")
    /\ UNCHANGED <<il_running, events, output_file, mouse_listener,
                   keyboard_listener, drag_state, il_files, il_ret,
                   il_stop_pc, il_now, il_starts, il_stops, il_registered,
                   pressAt>>

\* with self.lock: self.events.append(event): the thread waits for the
\* lock, appends and releases it
CallbackAppend(th) ==
    /\ UNCHANGED otherThanLogger
    /\ cb_pc[th] \in {"append", "append2"}
    /\ il_lock = "none"
    /\ UNCHANGED il_lock
    /\ events' = Append(events, cb_ev[th])
    /\ cb_pc' = [cb_pc EXCEPT ![th] =
                   IF cb_pc[th] = "append" /\ cb_in[th].kind = "click"
                   THEN "after" ELSE "idle"]
    /\ UNCHANGED <<il_running, output_file, mouse_listener,
                   keyboard_listener, drag_state, il_files, il_ret,
                   il_stop_pc, il_now, cb_in, cb_ev, il_budget, il_starts,
                   il_stops, il_registered, held, pressAt, cb_quiet,
                   START_TIME_NS, perf_counter>>

\* on_mouse_click, pressed, after its _add_event: the drag start
ClickAfterPress ==
    /\ UNCHANGED otherThanLogger
    /\ UNCHANGED il_lock
    /\ cb_pc["mouse"] = "after"
    /\ cb_in["mouse"].pressed
    /\ LET in == cb_in["mouse"]
       IN IF in.button \in Tracked
          THEN /\ drag_state' = [drag_state EXCEPT ![in.button] = TRUE,
                                                   !.start_x = in.x,
                                                   !.start_y = in.y,
                                                   !.start_time = perf_counter]
               /\ pressAt' = [pressAt EXCEPT ![in.button] =
                                [x |-> in.x, y |-> in.y, time |-> perf_counter,
                                 recorded |-> ~cb_quiet["mouse"]]]
               /\ perf_counter' = perf_counter + 1
          ELSE UNCHANGED <<drag_state, pressAt, perf_counter>>
    /\ cb_pc' = [cb_pc EXCEPT !["mouse"] = "idle"]
    /\ UNCHANGED <<il_running, events, output_file, mouse_listener,
                   keyboard_listener, il_files, il_ret, il_stop_pc, il_now,
                   cb_in, cb_ev, il_budget, il_starts, il_stops,
                   il_registered, held, cb_quiet, START_TIME_NS>>

\* A threshold that wants both axes to exceed it.
IsDragBothAxes(dx, dy) == dx > DragThreshold /\ dy > DragThreshold

\* if dx > 5 or dy > 5
IsDrag(dx, dy) == dx > DragThreshold \/ dy > DragThreshold

\* on_mouse_click, released, after its _add_event: the drag end
ClickAfterRelease ==
    /\ UNCHANGED otherThanLogger
    /\ UNCHANGED il_lock
    /\ cb_pc["mouse"] = "after"
    /\ ~cb_in["mouse"].pressed
    /\ LET in == cb_in["mouse"]
           dx == Abs(in.x - drag_state.start_x)
           dy == Abs(in.y - drag_state.start_y)
           drag_time == perf_counter - drag_state.start_time
       IN IF in.button \in Tracked /\ drag_state[in.button]
          THEN /\ drag_state' = [drag_state EXCEPT ![in.button] = FALSE]
               /\ IF IsDrag(dx, dy)
                  THEN AddEventBegin("mouse",
                          [Ev("drag_end", in.button, in.x, in.y) EXCEPT
                             !.start_x = drag_state.start_x,
                             !.start_y = drag_state.start_y,
                             !.duration_ns = drag_time],
                          perf_counter + 1, "append2", "idle")
                  ELSE /\ cb_pc' = [cb_pc EXCEPT !["mouse"] = "idle"]
                       /\ perf_counter' = perf_counter + 1
                       /\ UNCHANGED <<cb_ev, START_TIME_NS>>
          ELSE /\ cb_pc' = [cb_pc EXCEPT !["mouse"] = "idle"]
               /\ UNCHANGED <<drag_state, cb_ev, START_TIME_NS, perf_counter>>
    /\ UNCHANGED <<il_running, events, output_file, mouse_listener,
                   keyboard_listener, il_files, il_ret, il_stop_pc, il_now,
                   cb_in, il_budget, il_starts, il_stops, il_registered,
                   held, pressAt, cb_quiet>>

\* ========================================================================
\* Controller: RecorderApp
\* ========================================================================
NoUpload == [arg |-> Ret("none", 0), ret |-> "none"]

ApInit ==
    /\ is_recording = FALSE
    /\ loop = "none"
    /\ worker_pc = "idle"
    /\ app_pc = "idle"
    /\ app_started = {}
    /\ recording_path = Ret("none", 0)
    /\ app_upload = NoUpload
    /\ app_calls = <<>>
    /\ app_stops = 0
    /\ app_seen = {}

\* start_recording: returns at once while recording, else sets the flag and
\* starts the recorder thread.  The thread of the recording before has
\* ended.
StartRecording ==
    /\ UNCHANGED otherThanApp
    /\ app_pc = "idle"
    /\ ~is_recording
    /\ worker_pc = "idle"
    /\ app_stops < MaxRecordings
    /\ is_recording' = TRUE
    /\ worker_pc' = "new_loop"
    /\ app_calls' = <<>>
    /\ UNCHANGED <<loop, app_pc, app_started, recording_path, app_upload,
                   app_stops,
                   app_seen>>

\* recording_worker: self.loop = asyncio.new_event_loop()
WorkerNewLoop ==
    /\ UNCHANGED otherThanApp
    /\ worker_pc = "new_loop"
    /\ loop' = "new"
    /\ worker_pc' = "start_capture"
    /\ UNCHANGED <<is_recording, app_pc, app_started, recording_path,
                   app_upload, app_calls, app_stops,
                   app_seen>>

\* recording_worker: self.screen_capture.start(); self.input_logger.start()
WorkerStart(c) ==
    /\ UNCHANGED otherThanApp
    /\ worker_pc = "start_" \o c
    /\ app_started' = app_started \cup {c}
    /\ worker_pc' = IF c = "capture" THEN "start_logger" ELSE "start_muxer"
    /\ UNCHANGED <<is_recording, loop, app_pc, recording_path, app_upload,
                   app_calls, app_stops,
                   app_seen>>

\* recording_worker: the call self.timeline_muxer.start()
WorkerCallMuxer ==
    /\ UNCHANGED otherThanApp
    /\ worker_pc = "start_muxer"
    /\ app_started' = app_started \cup {"muxer"}
    /\ worker_pc' = "in_start"
    /\ UNCHANGED <<is_recording, loop, app_pc, recording_path, app_upload,
                   app_calls, app_stops, app_seen>>

\* TimelineMuxer.start(), called by the recorder thread
WorkerMuxStart ==
    /\ worker_pc = "in_start"
    /\ MuxStart

\* recording_worker: start() has returned; self.loop.run_forever()
WorkerRun ==
    /\ UNCHANGED otherThanApp
    /\ worker_pc = "in_start"
    /\ mx_running
    /\ worker_pc' = "run"
    /\ UNCHANGED <<is_recording, loop, app_pc, app_started, recording_path,
                   app_upload, app_calls, app_stops, app_seen>>

\* recording_worker: self.loop.run_forever() returns once loop.stop has run
WorkerLoopStopped ==
    /\ UNCHANGED otherThanApp
    /\ worker_pc = "run"
    /\ loop = "stopping"
    /\ loop' = "stopped"
    /\ worker_pc' = "idle"
    /\ app_started' = {}
    /\ UNCHANGED <<is_recording, app_pc, recording_path, app_upload,
                   app_calls, app_stops,
                   app_seen>>

\* stop_recording: returns at once while not recording; else clears the
\* flag and, if there is a loop, schedules its stop
StopRecordingBegin ==
    /\ UNCHANGED otherThanApp
    /\ app_pc = "idle"
    /\ is_recording
    /\ is_recording' = FALSE
    /\ app_stops' = app_stops + 1
    /\ loop' = IF loop = "new" THEN "stopping" ELSE loop
    /\ app_pc' = "join"
    /\ UNCHANGED <<worker_pc, app_started, recording_path, app_upload,
                   app_calls,
                   app_seen>>

\* stop_recording: self.recorder_thread.join(timeout=5.0): the thread has
\* ended, or the timeout expires
StopRecordingJoin ==
    /\ UNCHANGED otherThanApp
    /\ app_pc = "join"
    /\ app_pc' = "stop_capture"
    /\ UNCHANGED <<is_recording, loop, worker_pc, app_started,
                   recording_path, app_upload, app_calls, app_stops,
                   app_seen>>

\* stop_recording: self.screen_capture.stop(); self.input_logger.stop().
\* The return value, the path of the file, is dropped.  A component that
\* was started has left its file when its stop() returns.
StopComponent(c, path) ==
    /\ UNCHANGED otherThanApp
    /\ app_pc = "stop_" \o c
    /\ c \in app_started => path \in mx_exists
    /\ app_calls' = Append(app_calls, c \o ".stop")
    /\ app_pc' = IF c = "capture" THEN "stop_logger" ELSE "finalize"
    /\ UNCHANGED <<is_recording, loop, worker_pc, app_started,
                   recording_path, app_upload, app_stops,
                   app_seen>>

\* the frame pipeline and the logger, once started, write their files
ComponentOutput(c, path, d) ==
    /\ c \in app_started
    /\ ProduceFile(path, d)

\* stop_recording: the call self.timeline_muxer.finalize()
CallFinalize ==
    /\ UNCHANGED otherThanApp
    /\ app_pc = "finalize"
    /\ app_calls' = Append(app_calls, "finalize")
    /\ app_seen' = mx_exists
    /\ app_pc' = "finalizing"
    /\ UNCHANGED <<is_recording, loop, worker_pc, app_started,
                   recording_path, app_upload, app_stops>>

\* TimelineMuxer.finalize(), called by stop_recording, up to its validation
AppFinalizeBegin ==
    /\ app_pc = "finalizing"
    /\ mx_finalizes = app_stops - 1
    /\ FinalizeBegin

\* stop_recording: recording_path = self.timeline_muxer.finalize()
FinalizeReturned ==
    /\ UNCHANGED otherThanApp
    /\ app_pc = "finalizing"
    /\ mx_finalizes = app_stops
    /\ mx_pc = "idle"
    /\ recording_path' = mx_ret
    /\ app_pc' = "submit"
    /\ UNCHANGED <<is_recording, loop, worker_pc, app_started, app_upload,
                   app_calls, app_stops, app_seen>>

\* upload_recording: if not recording_path or not os.path.exists(...)
Accepted(r) == r.kind = "zip" /\ mx_zips[r.id].exists

\* stop_recording: self.uploader.upload_recording(recording_path)
Submit ==
    /\ UNCHANGED otherThanApp
    /\ app_pc = "submit"
    /\ app_upload' = [arg |-> recording_path,
                      ret |-> IF Accepted(recording_path)
                              THEN "True" ELSE "False"]
    /\ app_calls' = Append(app_calls, "upload_recording")
    /\ app_pc' = "idle"
    /\ UNCHANGED <<is_recording, loop, worker_pc, app_started,
                   recording_path, app_stops,
                   app_seen>>

\* ========================================================================
\* Specifications
\* ========================================================================
vars == <<scVars, upVars, duVars, tmVars, mxVars, fnVars, ilVars, fsVars, apVars>>

ScIdle == ScInit /\ ffmpeg_installed = TRUE
UpIdle == UpInit /\ queue_dir = {}
DuIdle == DuInit /\ du_in = [readable |-> TRUE, transport |-> "ok",
                             status |-> StatusOk, bodyJson |-> TRUE]
TmIdle == TmInit
FnIdle == FnInit /\ fn_exists = FALSE
MxIdle == MxInit
IlIdle == IlInit
FsIdle == FsInit
ApIdle == ApInit

ScNext ==
    \/ Start
    \/ \E k \in Sessions : CaptureLoop(k)
    \/ \E k \in Sessions : CaptureCheck(k)
    \/ \E k \in Sessions : CapturePut(k)
    \/ \E k \in Sessions : EncoderInit(k)
    \/ \E k \in Sessions : EncoderLoop(k)
    \/ \E k \in Sessions : EncoderGet(k)
    \/ \E k \in Sessions : EncoderWrite(k)
    \/ \E k \in Sessions : EncoderFinalize(k)
    \/ StopBegin
    \/ StopJoinCapture
    \/ StopJoinEncoder
    \/ StopClose

CaptureInit == ScInit /\ UpIdle /\ DuIdle /\ TmIdle /\ MxIdle /\ FnIdle /\ IlIdle
       /\ ApIdle
       /\ FsIdle

SpecCapture == CaptureInit /\ [][ScNext]_vars

\* The pipeline with its subprocess: ffmpeg may ignore the end of its input
\* or end by itself.
EncoderInitial ==
    /\ ScInitWith(BOOLEAN, {{}}, EncoderFrames, EncoderSessions,
                  EncoderDeaths)
    /\ UpIdle /\ DuIdle /\ TmIdle /\ MxIdle /\ FnIdle /\ IlIdle
    /\ ApIdle
    /\ FsIdle

EncoderNext ==
    \/ ScNext
    \/ \E k \in Sessions : ProcessDies(k)

SpecEncoder == EncoderInitial /\ [][EncoderNext]_vars

\* The pipeline on an ffmpeg that may advertise hardware encoders.
BackendInit ==
    /\ ScInitWith({FALSE}, SUBSET Encoders, EncoderFrames, EncoderSessions, 0)
    /\ UpIdle /\ DuIdle /\ TmIdle /\ MxIdle /\ FnIdle /\ IlIdle
    /\ ApIdle
    /\ FsIdle

SpecBackend == BackendInit /\ [][ScNext]_vars

UpNext ==
    \/ Construct
    \/ Crash
    \/ \E p \in Paths : RemoveArchive(p)
    \/ \E p \in Paths \cup {EmptyPath} : SubmitBegin(p)
    \/ SubmitWrite
    \/ SubmitPut
    \/ WorkerGet
    \/ WorkerUpload
    \/ WorkerRequeue

UploaderInit == UpInit /\ ScIdle /\ DuIdle /\ TmIdle /\ MxIdle /\ FnIdle /\ IlIdle
       /\ ApIdle
       /\ FsIdle

SpecUploader == UploaderInit /\ [][UpNext]_vars

RetryUploaderInit == RetryInit /\ ScIdle /\ DuIdle /\ TmIdle /\ MxIdle /\ FnIdle /\ IlIdle
       /\ ApIdle
       /\ FsIdle

SpecRetry == RetryUploaderInit /\ [][UpNext]_vars

\* One run of the uploader, the process staying up, with a worker thread
\* that is scheduled again and again: a step of the loop that can be taken
\* is taken.
FairInit ==
    /\ UpInitWith(FairSubmits, FairFailures)
    /\ ScIdle /\ DuIdle /\ TmIdle /\ MxIdle /\ FnIdle /\ IlIdle
    /\ ApIdle
    /\ FsIdle

FairNext ==
    \/ Construct
    \/ \E p \in Paths : RemoveArchive(p)
    \/ \E p \in Paths : SubmitBegin(p)
    \/ SubmitWrite
    \/ SubmitPut
    \/ WorkerGet
    \/ WorkerUpload
    \/ WorkerRequeue

SpecFairWorker ==
    /\ FairInit
    /\ [][FairNext]_vars
    /\ WF_vars(WorkerGet)
    /\ WF_vars(WorkerUpload)
    /\ WF_vars(WorkerRequeue)

DoUploadInit == DuInit /\ ScIdle /\ UpIdle /\ TmIdle /\ MxIdle /\ FnIdle /\ IlIdle
       /\ ApIdle
       /\ FsIdle

DoUploadNext == DoUploadCall

SpecDoUpload == DoUploadInit /\ [][DoUploadNext]_vars

TimingInit == TmInit /\ ScIdle /\ UpIdle /\ DuIdle /\ MxIdle /\ FnIdle /\ IlIdle
       /\ ApIdle
       /\ FsIdle

TimingNext ==
    \/ SetStartTime
    \/ \E p \in Callers : TimestampRead(p)
    \/ \E p \in Callers : GetStartCheck(p)
    \/ \E p \in Callers : GetStartInit(p)
    \/ \E p \in Callers : GetStartReturn(p)

SpecTiming == TimingInit /\ [][TimingNext]_vars

StampsInit ==
    TmInit /\ FsInit /\ ScIdle /\ UpIdle /\ DuIdle /\ MxIdle /\ FnIdle
       /\ ApIdle
       /\ IlIdle

StampsNext ==
    \/ SetStartTime
    \/ \E p \in Callers : TimestampRead(p)
    \/ \E p \in Callers : GetStartCheck(p)
    \/ \E p \in Callers : GetStartInit(p)
    \/ \E p \in Callers : GetStartReturn(p)
    \/ FrameStamp

SpecStamps == StampsInit /\ [][StampsNext]_vars

AppInit ==
    ApInit /\ MxInit /\ ScIdle /\ UpIdle /\ DuIdle /\ TmIdle /\ FnIdle
       /\ IlIdle /\ FsIdle

\* stop_recording never registers the two files with the muxer, so the
\* steps of finalize that follow its validation are not among the steps of
\* the controller.
AppNext ==
    \/ StartRecording
    \/ WorkerNewLoop
    \/ \E c \in {"capture", "logger"} : WorkerStart(c)
    \/ WorkerCallMuxer
    \/ WorkerMuxStart
    \/ WorkerRun
    \/ WorkerLoopStopped
    \/ StopRecordingBegin
    \/ StopRecordingJoin
    \/ StopComponent("capture", VideoPath)
    \/ StopComponent("logger", EventsPath)
    \/ \E d \in MuxEventFiles : ComponentOutput("capture", VideoPath, d)
    \/ \E d \in MuxEventFiles : ComponentOutput("logger", EventsPath, d)
    \/ CallFinalize
    \/ AppFinalizeBegin
    \/ FinalizeReturned
    \/ Submit

SpecApp == AppInit /\ [][AppNext]_vars

MuxerInit == MxInit /\ ScIdle /\ UpIdle /\ DuIdle /\ TmIdle /\ FnIdle /\ IlIdle
       /\ ApIdle
       /\ FsIdle

MuxerNext ==
    \/ MuxStart
    \/ MuxStop
    \/ \E p \in {NoPath, VideoPath} : SetVideoFile(p)
    \/ \E p \in {NoPath, EventsPath} : SetEventsFile(p)
    \/ \E p \in MxPaths, d \in MuxEventFiles : ProduceFile(p, d)
    \/ \E p \in MxPaths : RemoveFile(p)
    \/ FinalizeBegin
    \/ FinalizeMetadata
    \/ FinalizeEvents
    \/ FinalizeCopy
    \/ FinalizeZip

SpecMuxer == MuxerInit /\ [][MuxerNext]_vars

PureInit == FnInit /\ ScIdle /\ UpIdle /\ DuIdle /\ TmIdle /\ MxIdle /\ IlIdle
       /\ ApIdle
       /\ FsIdle

PureNext ==
    \/ CalculateDurationCall
    \/ NormalizeEventsCall

SpecPure == PureInit /\ [][PureNext]_vars

LoggerInit ==
    IlInit /\ ScIdle /\ UpIdle /\ DuIdle /\ TmIdle /\ MxIdle /\ FnIdle
       /\ ApIdle
       /\ FsIdle

LoggerNext ==
    \/ LoggerStart
    \/ LoggerStopBegin
    \/ LoggerStopLock
    \/ LoggerStopSave
    \/ LoggerStopReturn
    \/ KeyCallback("key_down", "a")
    \/ ScrollCallback(0, 0)
    \/ \E th \in Callers : CallbackAppend(th)

SpecLogger == LoggerInit /\ [][LoggerNext]_vars

\* the clicks the mouse listener delivers, as <<x, y, button, pressed>>:
\* presses and releases of the three tracked buttons and of one that is not
\* tracked, at points that lie 0, 1, 5 and 6 pixels apart on each axis
ClickInputs ==
    {<<0, 0, "left", TRUE>>, <<6, 5, "left", TRUE>>, <<5, 6, "right", TRUE>>,
     <<0, 0, "middle", TRUE>>, <<0, 0, "x1", TRUE>>,
     <<0, 0, "left", FALSE>>, <<6, 5, "left", FALSE>>,
     <<5, 6, "left", FALSE>>, <<0, 0, "right", FALSE>>,
     <<5, 6, "right", FALSE>>, <<6, 5, "middle", FALSE>>,
     <<0, 0, "x1", FALSE>>}

DragInit ==
    DragIlInit /\ ScIdle /\ UpIdle /\ DuIdle /\ TmIdle /\ MxIdle /\ FnIdle
       /\ ApIdle
       /\ FsIdle

DragNext ==
    \/ LoggerStart
    \/ MoveCallback(0, 0)
    \/ \E c \in ClickInputs : ClickCallback(c[1], c[2], c[3], c[4])
    \/ CallbackAppend("mouse")
    \/ ClickAfterPress
    \/ ClickAfterRelease

SpecDrag == DragInit /\ [][DragNext]_vars

\* The logger over several sessions, with the mouse listener delivering
\* its callbacks only between its start and its stop.
RestartClicks == {<<0, 0, "left", TRUE>>, <<0, 0, "left", FALSE>>}

RestartInit ==
    /\ IlInitWith(RestartCalls, RestartCallbacks)
    /\ ScIdle /\ UpIdle /\ DuIdle /\ TmIdle /\ MxIdle /\ FnIdle
    /\ ApIdle
    /\ FsIdle

RestartNext ==
    \/ LoggerStart
    \/ LoggerStopBegin
    \/ LoggerStopLock
    \/ LoggerStopSave
    \/ LoggerStopReturn
    \/ mouse_listener /\ MoveCallback(0, 0)
    \/ \E c \in RestartClicks :
          mouse_listener /\ ClickCallback(c[1], c[2], c[3], c[4])
    \/ CallbackAppend("mouse")
    \/ ClickAfterPress
    \/ ClickAfterRelease

SpecRestart == RestartInit /\ [][RestartNext]_vars

\* ========================================================================
\* Properties
\* ========================================================================

\* ---- frame pipeline (SpecCapture) ------------------------------------------

\* C1: the frame channel never holds more than 2 frames, and a capture
\* thread that has sampled a frame while the channel is full drops that
\* frame: the channel is unchanged, the thread is back at the top of its
\* loop (it neither blocks nor ends in the exception handler) and running is
\* untouched.
C1_FullChannelDropsFrame ==
    [][/\ Len(frame_queue') <= 2
       /\ \A k \in Sessions :
             (cap_pc[k] = "check" /\ cap_pc'[k] # "check" /\ Len(frame_queue) = 2)
                => /\ frame_queue' = frame_queue
                   /\ cap_pc'[k] = "loop"
                   /\ sc_running' = sc_running
                   /\ cap_frame[k] \in dropped']_vars

\* a frame was dropped on a full channel and its capture thread went on
C1_Witness ==
    /\ dropped # {}
    /\ Len(frame_queue) = 2
    /\ \E k \in Sessions : cap_pc[k] = "loop"

\* the session that was started last has been stopped by stop()
SessionStopped == session > 0 /\ stopped = session /\ stop_pc = "idle"

\* C2: every frame a capture thread has put on the channel is written to the
\* input stream of the encoder of its session before that stream is closed;
\* once stop() has returned no frame is left in the channel; and no write is
\* attempted on a closed stream.  Stated for the runs in which the encoder
\* was found and no join() of stop() ran into its timeout, where the
\* interleaving of stop() and the two threads is all that is left.
C2_ChannelDrainedBeforeClose ==
    (ffmpeg_installed /\ joinTimeouts = 0) =>
       /\ \A k \in Sessions : stdin[k] = "closed" => putBy[k] \subseteq written[k]
       /\ SessionStopped => frame_queue = <<>>
       /\ closedWrites = {}

\* ---- upload queue (SpecUploader, SpecRetry) --------------------------------

PendingNames ==
    {r.file : r \in Range(upload_queue)} \cup
    (IF s_pc = "put" THEN {s_rec.file} ELSE {})

\* C4: a step never removes the durable record of a task that is still
\* pending, unless that very task was delivered in the step; in particular
\* the delivery of one task leaves the records of the other pending tasks
\* (also of those submitted within the same clock second) in place.
C4_DeliveryRemovesOnlyOwnRecord ==
    [][\A f \in queue_dir \ queue_dir' :
          f.name \in PendingNames => f.name \in delivered']_vars

\* C5: once a task has been delivered its own durable record is no longer
\* in the queue directory, whatever the clock returned while it was
\* submitted.
C5_DeliveredRecordRemoved ==
    \A n \in delivered : ~(\E f \in queue_dir : f.name = n)

BackoffSchedule == <<2, 4, 8, 16, 30>>

\* C6: for a task in memory its waits so far are the first retry_count
\* entries of 2, 4, 8, 16, 30; retry_count and the number of attempts never
\* exceed 6; and the step of the 6th failure abandons the task with no wait
\* and no re-enqueue.
C6_BackoffSchedule ==
    [][/\ \A r \in InMemory' \cup abandoned' :
             /\ r.retries <= 6
             /\ r.attempts <= 6
             /\ r.waits = SubSeq(BackoffSchedule, 1, Min(r.retries, 5))
       /\ \A r \in abandoned' \ abandoned :
             /\ r.retries = 6
             /\ r.attempts = 6
             /\ upload_queue' = upload_queue
             /\ w_pc' = "get"
             /\ w_rec' = NoRec]_vars

\* a task was abandoned at its 6th failure, after the five waits
C6_Witness ==
    \E r \in abandoned : r.waits = <<2, 4, 8, 16, 30>> /\ r.attempts = 6

\* C7: once a task has exceeded the retry ceiling, and while its archive
\* exists, its durable record stays in the queue directory and the task is
\* not in memory again, neither through the worker nor through a later
\* construction of the Uploader.
C7_AbandonedStaysOut ==
    \A r \in abandoned :
       r.path \in archives =>
          /\ \E f \in queue_dir : f.name = r.file
          /\ ~(\E q \in InMemory : q.file = r.file)

\* the fields json.dump stored for the in-memory record r
StoredFields(r) == [name |-> r.file, path |-> r.path, ts |-> r.ts,
                    machine |-> r.machine, os |-> r.os, retries |-> r.retries]

C9_SubmitResult ==
    [][/\ (s_result' # s_result /\ s_result'.ret \in {"True", "False"}) =>
             ((s_result'.ret = "True") <=>
                 (s_result'.path # EmptyPath /\ s_result'.existed))
       /\ (s_result' # s_result /\ s_result'.ret = "False") =>
             /\ s_pc = "idle"
             /\ queue_dir' = queue_dir
             /\ upload_queue' = upload_queue
       /\ (s_pc = "write" /\ s_pc' = "put") =>
             \E f \in queue_dir' \ queue_dir :
                /\ queue_dir' = queue_dir \cup {f}
                /\ f.path = s_result.path
                /\ f.ts \in 0..MaxTick
                /\ f.machine = Node
                /\ f.os = OsName
                /\ f.retries = 0
       /\ (s_result' # s_result /\ s_result'.ret = "True") =>
             /\ Len(upload_queue') = Len(upload_queue) + 1
             /\ SubSeq(upload_queue', 1, Len(upload_queue)) = upload_queue
             /\ LET r == upload_queue'[Len(upload_queue')]
                IN /\ r.path = s_result'.path
                   /\ r.ts \in 0..MaxTick
                   /\ r.machine = Node
                   /\ r.os = OsName
                   /\ r.retries = 0
                   /\ r.file \in everWritten]_vars

\* a call returned True for an archive that existed, and its task is queued
C9_Witness ==
    /\ s_result.ret = "True"
    /\ s_result.existed
    /\ \E i \in DOMAIN upload_queue :
          upload_queue[i].path = s_result.path /\ upload_queue[i].retries = 0

\* ---- one delivery attempt (SpecDoUpload) -----------------------------------

\* C10: _do_upload returns True iff there was a response with status 200 and
\* a body that parses as JSON; every other status, every transport error and
\* every other exception gives False, and no exception leaves the function.
C10_SuccessIff200Json ==
    du_out # "pending" =>
       /\ du_out \in {"True", "False"}
       /\ (du_out = "True") <=>
             /\ du_in.readable
             /\ du_in.transport = "ok"
             /\ du_in.status = 200
             /\ du_in.bodyJson

\* an attempt whose request raised something else than a RequestException
\* has returned False
C10_Witness ==
    /\ du_out = "False"
    /\ du_in.readable
    /\ du_in.transport = "Exception"


\* ---- clock (SpecTiming) -----------------------------------------------------

\* C20: once the clock origin is set and a producer has asked for a
\* timestamp, no step changes the origin, also when two threads make their
\* first request at the same time; so all the origins that get_start_time
\* has handed out are the same.
C20_OriginNeverChanges ==
    [][/\ (START_TIME_NS # NoTime /\ tm_active # {})
            => START_TIME_NS' = START_TIME_NS
       /\ \A p, q \in Callers :
             (tm_origin'[p] # NoTime /\ tm_origin'[q] # NoTime)
                => tm_origin'[p] = tm_origin'[q]]_vars

\* ---- packaging (SpecMuxer) ---------------------------------------------------

\* C11: a finalize call that finds the video path or the events path not
\* registered or not existing returns None at once: it has written nothing
\* into the working directory and made no archive; and finalize never gets
\* past its validation without both files.
C11_MissingArtifactNoPackage ==
    [][/\ (mx_finalizes' # mx_finalizes
           /\ ~(Registered(video_file) /\ Registered(events_file)))
          => /\ mx_ret' = Ret("null", 0)
             /\ mx_pc' = "idle"
             /\ mx_dirs' = mx_dirs
             /\ mx_zips' = mx_zips
       /\ mx_pc' # "idle" => (mx_seen'.video /\ mx_seen'.events)]_vars

\* a finalize of a started session with its video in place, but without
\* events file, has returned None
C11_Witness ==
    /\ mx_finalizes > 0
    /\ mx_pc = "idle"
    /\ mx_ret = Ret("null", 0)
    /\ mx_seen.id /\ mx_seen.video /\ ~mx_seen.events

\* ---- the pure steps of finalize (SpecPure) -----------------------------------

\* a <= b for two numbers of nanoseconds
TsLeq(a, b) == a[1] < b[1] \/ (a[1] = b[1] /\ a[2] <= b[2])

\* q is the integer part of d / 1_000_000
IsIntegerPart(q, d) ==
    IF TsLeq(<<0, 0>>, d)
    THEN TsLeq(<<q, 0>>, d) /\ ~TsLeq(<<q + 1, 0>>, d)
    ELSE TsLeq(d, <<q, 0>>) /\ ~TsLeq(d, <<q - 1, 0>>)

\* the events file is there and holds a list of events that all carry t
WellFormed(exists, data) ==
    /\ exists
    /\ data.parse
    /\ data.has_events
    /\ \A i \in DOMAIN data.events : HasT(data.events[i])

ExampleEvents == <<[t |-> <<1000, 0>>, kind |-> "mouse_down"],
                   [t |-> <<3000, 0>>, kind |-> "key_down"]>>

\* C13: for a file of n >= 1 events the normalized list has, at each
\* position i, the event of the input with t replaced by the integer part of
\* (t_i - t_first) / 1_000_000 and its other fields unchanged; the events
\* t = 1_000_000_000, 3_000_000_000 come out as 0 and 2000.
C13_RebaseAndRescale ==
    (fn_events # NoEvents /\ WellFormed(fn_exists, fn_data)
       /\ fn_data.events # <<>>) =>
       /\ DOMAIN fn_events.events = DOMAIN fn_data.events
       /\ \A i \in DOMAIN fn_data.events :
             /\ fn_events.events[i].kind = fn_data.events[i].kind
             /\ IsIntegerPart(fn_events.events[i].t,
                              TsSub(fn_data.events[i].t, fn_data.events[1].t))
       /\ fn_data.events = ExampleEvents =>
             (fn_events.events[1].t = 0 /\ fn_events.events[2].t = 2000)

\* the events of the test have been normalized, the second to 2000 ms
C13_Witness ==
    /\ fn_exists
    /\ fn_data.events = ExampleEvents
    /\ fn_events # NoEvents
    /\ fn_events.events[2].t = 2000

\* s seconds and n nanoseconds are d / 1_000_000_000
IsSeconds(sn, d) ==
    /\ sn[2] \in 0..(NsPerSec - 1)
    /\ d = <<sn[1] * (NsPerSec \div NsPerMs) + (sn[2] \div NsPerMs),
             sn[2] % NsPerMs>>

\* C14: with at least two events the duration is (t_last - t_first) /
\* 1_000_000_000 seconds (2.0 for the events of the test); with the events
\* file absent, or holding fewer than two events, it is the placeholder of
\* 30 seconds; the computation always returns a number.
C14_DurationOrPlaceholder ==
    fn_duration # NoResult =>
       /\ Len(fn_duration) = 2
       /\ (WellFormed(fn_exists, fn_data) /\ Len(fn_data.events) >= 2) =>
             IsSeconds(fn_duration,
                       TsSub(fn_data.events[Len(fn_data.events)].t,
                             fn_data.events[1].t))
       /\ (fn_exists /\ fn_data.events = ExampleEvents) => fn_duration = <<2, 0>>
       /\ (~fn_exists \/ (fn_data.parse /\ Len(fn_data.events) < 2)) =>
             fn_duration = <<30, 0>>

\* the duration of the events of the test has been computed as 2 seconds
C14_Witness ==
    /\ fn_exists
    /\ fn_data.events = ExampleEvents
    /\ fn_duration = <<2, 0>>

\* the placeholder has been returned for a file with a single event
C14_WitnessPlaceholder ==
    /\ fn_exists
    /\ fn_data.parse
    /\ Len(fn_data.events) = 1
    /\ fn_duration = <<30, 0>>

\* ---- event logger (SpecLogger) -----------------------------------------------

\* the timestamps of the list q do not decrease along the list
NonDecreasing(q) == \A i, j \in DOMAIN q : i < j => TsLeq(q[i].t, q[j].t)

\* what json.load finds in an events file that stop() has written
FileData(f) == [parse |-> TRUE, has_events |-> TRUE, events |-> f.events]

\* C12: for every events file that stop() has written with n >= 1 events,
\* whatever the interleaving of the two listener threads was, normalization
\* returns n events of the same kinds in the same order, the first with
\* t = 0 and t not decreasing along the list.
C12_NormalizedSortedFromZero ==
    \A id \in MxIds :
       (il_files[id].exists /\ il_files[id].events # <<>>) =>
          LET out == NormalizeEvents(TRUE, FileData(il_files[id])).events
          IN /\ Len(out) = Len(il_files[id].events)
             /\ \A i \in DOMAIN out : out[i].kind = il_files[id].events[i].kind
             /\ out[1].t = 0
             /\ \A i, j \in DOMAIN out : i < j => out[i].t <= out[j].t

\* C15: the timestamps of the stored event sequence, and of every events
\* file that stop() has written, do not decrease in list order, also when
\* the mouse and the keyboard callbacks run concurrently.
C15_EventsInTimestampOrder ==
    /\ NonDecreasing(events)
    /\ \A id \in MxIds : NonDecreasing(il_files[id].events)

\* C19: a start() call on a running logger changes neither the events nor
\* the output file nor the listeners; a stop() call on a logger that is not
\* running writes no file and returns None; and a callback that is
\* delivered while the logger is not running builds no event and appends
\* nothing.
C19_NoOpCalls ==
    [][/\ (il_starts' # il_starts /\ il_running)
          => /\ il_running'
             /\ events' = events
             /\ output_file' = output_file
             /\ il_registered' = il_registered
             /\ mouse_listener' = mouse_listener
             /\ keyboard_listener' = keyboard_listener
       /\ (il_stops' # il_stops /\ ~il_running)
          => /\ il_files' = il_files
             /\ il_ret' = Ret("null", 0)
             /\ il_stop_pc' = "idle"
             /\ events' = events
             /\ ~il_running'
       /\ (il_budget'.callbacks # il_budget.callbacks /\ ~il_running)
          => /\ events' = events
             /\ cb_ev' = cb_ev
             /\ \A th \in Callers : cb_pc'[th] = cb_pc[th]
       /\ \A th \in Callers :
             (cb_pc[th] = "append" /\ cb_pc'[th] # "append")
                => ~cb_quiet[th]]_vars

\* a second start() has been called on the running logger, whose events
\* are still there
C19_Witness ==
    /\ il_starts = 2
    /\ il_registered = 2
    /\ il_stops = 0
    /\ il_running
    /\ events # <<>>

\* a stop() on the logger that was never started has returned None, and a
\* callback has been delivered to it
C19_WitnessStopped ==
    /\ il_starts = 0
    /\ il_stops > 0
    /\ il_ret = Ret("null", 0)
    /\ il_budget.callbacks < MaxCallbacks

\* the step is a delivery of on_mouse_move
MoveDelivered ==
    /\ il_budget'.callbacks # il_budget.callbacks
    /\ cb_in'["mouse"].kind = "move"

\* C16: on a running logger a pointer-move callback builds a mouse_drag
\* event at the pointer's position, which its thread then appends, if and
\* only if some tracked button has been pressed and not yet released; a
\* move with no button held builds and appends nothing; and every
\* mouse_drag event on the list was appended by a move callback.
C16_DragOnlyWhileHeld ==
    [][/\ (MoveDelivered /\ il_running)
          => /\ events' = events
             /\ IF held # {}
                THEN /\ cb_pc'["mouse"] = "append"
                     /\ cb_ev'["mouse"].kind = "mouse_drag"
                     /\ cb_ev'["mouse"].x = cb_in'["mouse"].x
                     /\ cb_ev'["mouse"].y = cb_in'["mouse"].y
                ELSE /\ cb_pc'["mouse"] = "idle"
                     /\ cb_ev' = cb_ev
       /\ (/\ Len(events') > Len(events)
           /\ events'[Len(events')].kind = "mouse_drag")
          => /\ cb_in["mouse"].kind = "move"
             /\ cb_pc["mouse"] = "append"
             /\ cb_pc'["mouse"] = "idle"
             /\ held # {}]_vars

\* a mouse_drag event has been appended while the right or the middle
\* button, and not the left one, was held
C16_Witness ==
    /\ events # <<>>
    /\ events[Len(events)].kind = "mouse_drag"
    /\ "left" \notin held
    /\ held # {}
    /\ cb_pc["mouse"] = "idle"

\* a hover move has been delivered to the running logger after a press and
\* a release, and nothing was appended for it
C16_WitnessHover ==
    /\ il_running
    /\ cb_in["mouse"].kind = "move"
    /\ cb_pc["mouse"] = "idle"
    /\ ~cb_quiet["mouse"]
    /\ held = {}
    /\ Len(events) >= 2
    /\ events[Len(events)].kind = "mouse_up"

\* the step is the part of on_mouse_click that follows the mouse_up of a
\* tracked button that was held, on a logger that was running when the
\* release was delivered
ReleaseHandled ==
    /\ cb_pc["mouse"] = "after"
    /\ cb_pc'["mouse"] # "after"
    /\ ~cb_in["mouse"].pressed
    /\ cb_in["mouse"].button \in Tracked
    /\ cb_in["mouse"].was_held
    /\ ~cb_quiet["mouse"]

\* C17: when a tracked button that was pressed at (x0,y0) is released at
\* (x1,y1), the list holds the button's mouse_down (if the logger ran at
\* the press) and, last, its mouse_up; a drag_end with start (x0,y0) and
\* end (x1,y1) is built, to be appended next, if and only if |x1-x0| > 5 or
\* |y1-y0| > 5; and the button's flag is clear afterwards.
C17_DragEndIffMoved ==
    [][ReleaseHandled =>
         LET in == cb_in["mouse"]
             b == in.button
             p0 == pressAt[b]
             moved == Abs(in.x - p0.x) > DragThreshold
                         \/ Abs(in.y - p0.y) > DragThreshold
             n == Len(events)
         IN /\ drag_state'[b] = FALSE
            /\ n > 0
            /\ events[n].kind = "mouse_up"
            /\ events[n].button = b
            /\ events[n].x = in.x /\ events[n].y = in.y
            /\ p0.recorded
                  => \E i \in 1..(n - 1) :
                        /\ events[i].kind = "mouse_down"
                        /\ events[i].button = b
                        /\ events[i].x = p0.x /\ events[i].y = p0.y
            /\ moved <=> cb_pc'["mouse"] = "append2"
            /\ moved => /\ cb_ev'["mouse"].kind = "drag_end"
                        /\ cb_ev'["mouse"].button = b
                        /\ cb_ev'["mouse"].start_x = p0.x
                        /\ cb_ev'["mouse"].start_y = p0.y
                        /\ cb_ev'["mouse"].x = in.x
                        /\ cb_ev'["mouse"].y = in.y
            /\ events' = events]_vars

\* C18: while a tracked button is held, the start position and start time
\* that its release will be compared against are those of its own press.
C18_PerButtonStart ==
    \A b \in Tracked :
       drag_state[b] => /\ drag_state.start_x = pressAt[b].x
                        /\ drag_state.start_y = pressAt[b].y
                        /\ drag_state.start_time = pressAt[b].time

\* C30: every finalize() call leaves running false from its first step on,
\* whether it goes on to build the package or returns None; and a finalize
\* call made before any session was started returns None at once, having
\* made no directory, written no file and made no archive.
C30_FinalizeStopsSession ==
    [][/\ (mx_finalizes' # mx_finalizes) => ~mx_running'
       /\ (mx_pc # "idle" \/ mx_pc' # "idle") => ~mx_running'
       /\ (mx_finalizes' # mx_finalizes /\ mx_starts = 0)
          => /\ mx_ret' = Ret("null", 0)
             /\ mx_pc' = "idle"
             /\ mx_dirs' = mx_dirs
             /\ mx_zips' = mx_zips
             /\ mx_exists' = mx_exists
             /\ mx_data' = mx_data]_vars

\* a finalize call that found its session still running has returned the
\* archive, and the session is stopped
C30_Witness ==
    /\ mx_seen.running
    /\ mx_ret.kind = "zip"
    /\ mx_pc = "idle"
    /\ ~mx_running

\* a finalize call that found its session still running has returned None
C30_WitnessNull ==
    /\ mx_seen.running
    /\ mx_ret.kind = "null"
    /\ mx_pc = "idle"
    /\ ~mx_running

\* a finalize call made before any start() has returned None, with both
\* files registered and in place
C30_WitnessNoSession ==
    /\ mx_starts = 0
    /\ mx_finalizes > 0
    /\ mx_ret.kind = "null"
    /\ Registered(video_file)
    /\ Registered(events_file)

\* C25: every start() that begins a session names it by an id whose
\* working directory did not exist before, so the id and the directory
\* differ from those of every earlier session, also when the earlier one
\* was started in the same clock second.
C25_FreshSessionId ==
    [][(mx_starts' # mx_starts) => ~mx_dirs[recording_id'].exists]_vars

\* C26: every archive that finalize has made, for whatever session and
\* after whatever earlier sessions and finalize calls, holds exactly the
\* entries metadata.json, events.json and video.mp4; and the archive that a
\* finalize call returns exists.
C26_ArchiveHasThreeEntries ==
    /\ \A i \in MxIds :
          mx_zips[i].exists => mx_zips[i].entries = MxNames
    /\ mx_ret.kind = "zip" => mx_zips[mx_ret.id].exists

\* the second session's finalize has returned its archive, after an earlier
\* finalize call that returned None
C26_Witness ==
    /\ mx_starts = 2
    /\ mx_finalizes >= 2
    /\ mx_ret.kind = "zip"
    /\ mx_zips[mx_ret.id].entries = MxNames

\* C27: no finalize call raises into its caller: a step that fails after
\* the validation makes the call return None.
C27_FinalizeNeverRaises == mx_ret.kind # "raised"

\* C21: a frame and an input event that are stamped at the same instant,
\* that is, at the same reading of the monotonic counter, carry the same
\* timestamp.
C21_OneTimeline ==
    \A p \in Callers :
       (/\ tm_pc[p] = "idle"
        /\ tm_now[p] # NoTime
        /\ frame_instant = tm_now[p])
          => frame_timestamp_ns = tm_ts[p]

\* C28: the event-sequence lock is not held while stop() writes the events
\* file, and no listener callback waits for the lock while the file is
\* being written.
C28_NoLockAcrossFileWrite ==
    /\ il_stop_pc = "write" => il_lock # "stop"
    /\ \A th \in Callers :
          ~(/\ cb_pc[th] \in {"append", "append2"}
            /\ il_stop_pc = "write"
            /\ il_lock = "stop")

\* stop_recording has made its last call
StopRecordingDone ==
    /\ app_calls # <<>>
    /\ app_calls[Len(app_calls)] = "upload_recording"

\* the controller has not registered a file with the muxer
NothingRegistered == video_file = NoPath /\ events_file = NoPath

\* C24: when stop_recording is through, and at its finalize call the muxer
\* had a session and the video and the events file were both in place,
\* it has stopped the capture,
\* stopped the logger, called finalize and called upload_recording, in this
\* order; finalize returned an archive; and upload_recording was given
\* exactly that archive and accepted it.
C24_ArchiveHandedToUploader ==
    (StopRecordingDone /\ mx_seen.id /\ MxPaths \subseteq app_seen)
       => /\ app_calls = <<"capture.stop", "logger.stop", "finalize",
                           "upload_recording">>
          /\ recording_path.kind = "zip"
          /\ app_upload.arg = recording_path
          /\ app_upload.ret = "True"

\* the backend that the preference order picks from an advertised list:
\* h264_nvenc, else h264_qsv, else the software encoder
Preferred(advertised) ==
    IF "h264_nvenc" \in advertised THEN "h264_nvenc"
    ELSE IF "h264_qsv" \in advertised THEN "h264_qsv"
    ELSE Software

\* C29: every subprocess is launched with the backend that the preference
\* order picks from the encoders ffmpeg advertises: the first hardware
\* encoder if advertised, else the second, else the software encoder.
C29_BackendByPreference ==
    \A k \in Sessions : proc[k] # "none" => codec[k] = Preferred(encoders)

\* the step in which stop() returns the path of the session's video file
StopReturns == stop_pc = "close" /\ stop_pc' = "idle" /\ stopped' = session

\* C22: when stop() returns on a pipeline that was running, the running
\* flag is clear, both worker threads have been joined in turn, and the
\* subprocess of the session is not running (it has exited or was killed)
\* and its input is not open.
C22_StopEndsSubprocess ==
    [][StopReturns => /\ ~sc_running'
                      /\ proc'[session] # "running"
                      /\ stdin'[session] # "open"]_vars

\* a step in which a worker thread handles an exception: the capture
\* thread's put raises queue.Full, or the encoder thread's write of a frame
\* to the input of the subprocess fails
PutFails == \E k \in Sessions : cap_pc[k] = "put" /\ cap_pc'[k] = "done"
WriteFails == closedWrites' # closedWrites

\* C23: the step in which a worker thread handles an error, a failed write
\* of a frame to the encoder's input included, leaves running false.
C23_ErrorHaltsPipeline ==
    [][PutFails \/ WriteFails => ~sc_running']_vars

\* the step in which get_timestamp_ns returns to caller p
TimestampReturns(p) == tm_pc[p] = "return" /\ tm_pc'[p] = "idle"

\* C40: every timestamp that get_timestamp_ns returns is non-negative, the
\* one of the first call included, and is not less than the timestamp the
\* same thread got from its previous call.
C40_NonNegativeNonDecreasing ==
    [][\A p \in Callers :
          TimestampReturns(p) =>
             /\ tm_ts'[p] >= 0
             /\ tm_origin[p] # NoTime => tm_ts'[p] >= tm_ts[p]]_vars

\* no button is marked as held in self.drag_state
NoDragActive(d) == ~d.left /\ ~d.right /\ ~d.middle

\* every mouse_drag event of the list comes after a mouse_down event
DragAfterDown ==
    \A i \in DOMAIN events :
       events[i].kind = "mouse_drag"
          => \E j \in 1..(i - 1) : events[j].kind = "mouse_down"

\* C37: when start() begins a session, no button is marked as held in
\* drag_state, whatever the previous session left there, and so the events
\* of a session hold no mouse_drag before a mouse_down.
C37_SessionStartsWithoutDrag ==
    /\ [][(~il_running /\ il_running') => NoDragActive(drag_state')]_vars
    /\ [](il_running => DragAfterDown)

\* C36: once stop() has written the events file and returned, the file
\* holds every event of the event sequence: a callback that passed the
\* running check before stop() cleared the flag has its event in the file
\* or appends nothing.
C36_EveryAppendedEventSaved ==
    (~il_running /\ il_stop_pc = "idle" /\ il_ret.kind = "file")
       => events = il_files[il_ret.id].events

\* C38: a start() that begins a session after a finalize has packaged the
\* registered video and events files leaves neither path registered, so
\* that a finalize of the new session finds nothing from the earlier one.
C38_StartClearsRegistrations ==
    [][(mx_starts' # mx_starts /\ mx_ret.kind = "zip")
          => (video_file' = NoPath /\ events_file' = NoPath)]_vars

\* an events file that is not JSON, has no "events" list, or has an event
\* without "t"
Malformed(d) ==
    \/ ~d.parse
    \/ ~d.has_events
    \/ \E i \in DOMAIN d.events : ~HasT(d.events[i])

\* C31: a finalize that finds the registered events file malformed goes on
\* packaging: the manifest it writes carries the placeholder duration of
\* 30 seconds and the events it writes are the empty list.
C31_MalformedEventsGetDefaults ==
    [][(Registered(events_file) /\ Malformed(mx_data)) =>
          /\ (mx_pc = "metadata" /\ mx_pc' # mx_pc)
                => /\ mx_pc' = "events"
                   /\ mx_dirs'[recording_id].duration = <<DefaultDuration, 0>>
          /\ (mx_pc = "events" /\ mx_pc' # mx_pc)
                => /\ mx_pc' = "copy"
                   /\ mx_dirs'[recording_id].events.events = <<>>]_vars

\* the worker takes from the queue a record whose archive does not exist
TakesVanished ==
    /\ w_pc = "get"
    /\ up_running /\ up_running'
    /\ upload_queue # <<>>
    /\ Head(upload_queue).path \notin archives
    /\ Len(upload_queue') < Len(upload_queue)

\* C32: a worker that takes a record whose archive no longer exists attempts
\* no delivery, counts no retry, puts the record back nowhere and is ready
\* for the next record.
C32_VanishedArchiveDiscarded ==
    [][TakesVanished =>
          /\ w_pc' = "get"
          /\ w_rec' = NoRec
          /\ upload_queue' = Tail(upload_queue)
          /\ delivered' = delivered
          /\ abandoned' = abandoned
          /\ failuresLeft' = failuresLeft]_vars

\* the only run of the uploader accepted an archive, which then vanished,
\* and the queue is empty again with nothing delivered, abandoned or
\* waiting for a retry
C32_Witness ==
    /\ runs = 1
    /\ w_pc = "get"
    /\ s_pc = "idle"
    /\ s_result.ret = "True"
    /\ s_result.path \notin archives
    /\ upload_queue = <<>>
    /\ delivered = {}
    /\ abandoned = {}
    /\ failuresLeft = MaxFailures

\* the names a durable record, and with it a task, can have
TaskNames ==
    {LegacyRecord.name, EarlierRecord.name}
       \cup {<<Sec(t), FirstId + k>> : t \in 0..MaxTick, k \in 1..FairSubmits}

\* the task named f is on the in-memory queue or in the hands of the worker
Queued(f) == \E r \in InMemory : r.file = f

Active(pc) == {k \in Sessions : pc[k] \notin {"unborn", "done"}}

\* C34: at any time at most one capture thread and at most one encoder
\* thread are alive, whatever start() and stop() calls were made and
\* whichever joins of stop() timed out.
C34_OneWorkerPerRole ==
    /\ Cardinality(Active(cap_pc)) <= 1
    /\ Cardinality(Active(enc_pc)) <= 1

\* C35: when start() begins a session the frame channel is empty, and the
\* frames written to the subprocess of a session are frames that the
\* capture thread of that session has put on the channel.
C35_FramesStayInTheirSession ==
    /\ [][session' # session => frame_queue' = <<>>]_vars
    /\ [](\A k \in Sessions : written[k] \subseteq putBy[k])

\* stop_recording has made, or gone past, its stop() call for component c
StopCalled(c) ==
    \E i \in 1..Len(app_calls) : app_calls[i] = c \o ".stop"

\* the recorder thread starts component c in this step
WorkerStarts(c) == c \notin app_started /\ c \in app_started'

\* C39: once stop_recording has returned no recording component is running,
\* whatever the interleaving with the recorder thread: the frame pipeline
\* and the event logger are never started after stop_recording has made its
\* stop() call for them (nothing else would stop them), and the muxer's
\* running flag is false whenever stop_recording is through.
C39_NothingRunsAfterStop ==
    /\ [][\A c \in {"capture", "logger"} :
             WorkerStarts(c) => ~StopCalled(c)]_vars
    /\ [](StopRecordingDone => ~mx_running)

====
